---- MODULE Spec2Model ----
(***************************************************************************)
(* A model of meilisearchdsl: the Q condition algebra (query.py) and the   *)
(* IndexQuery / IndexSearch request-options builder (index_query.py).      *)
(*                                                                         *)
(* Python strings that the code inspects or builds character by character  *)
(* (condition keys, rendered filters) are sequences of one-character       *)
(* strings.  Attribute names, which the code only uses as dictionary keys, *)
(* are TLA+ strings.  Python values are records [t, n, s, l]: t is the     *)
(* type name, n the number (int, bool as 0/1, or the id of a Q object),    *)
(* s the characters of a str and l the elements of a list.                 *)
(***************************************************************************)
EXTENDS Integers, Sequences, FiniteSets, TLC

VARIABLES
    nodes,  \* the Q objects, by id
    dicts,  \* the dict objects held by Q.conditions, by id
    lists,  \* the list objects held by Q.children, by id
    made,   \* made[i]: the call that returned the Q object i
    ctor,   \* the arguments the IndexSearch was constructed with
    attrs,  \* the instance attributes of the IndexQuery of the IndexSearch
    calls,  \* number of setter calls made on the builder
    ret,    \* the latest call and its outcome
    wait,   \* the activation of MeiliIndex._await_running_task
    client  \* the MeiliClient and the server behind it

vars == <<nodes, dicts, lists, made, ctor, attrs, calls, ret, wait, client>>

(***************************************************************************)
(* Bounds of the model.                                                    *)
(***************************************************************************)
\* Q objects of the tree specification
MaxNodes == 4

\* Q objects of the error specification
MaxErrNodes == 3

\* Q objects of the frame specification
MaxFrameNodes == 3

\* Q objects of the renderers specification
MaxRenderNodes == 2

\* Q objects of the leaf specification
MaxLeafNodes == 2

\* conditions of a leaf of the conditions specification
MaxConds == 3

\* elements of a list value
MaxListLen == 2

\* setter calls on the builder
MaxCalls == 3

(***************************************************************************)
(* Python values.                                                          *)
(***************************************************************************)
PyNone == [t |-> "NoneType", n |-> 0, s |-> <<>>, l |-> <<>>]

PyStr(s) == [t |-> "str", n |-> 0, s |-> s, l |-> <<>>]

PyInt(n) == [t |-> "int", n |-> n, s |-> <<>>, l |-> <<>>]

PyBool(b) == [t |-> "bool", n |-> IF b THEN 1 ELSE 0, s |-> <<>>, l |-> <<>>]

PyList(l) == [t |-> "list", n |-> 0, s |-> <<>>, l |-> l]

PyQ(id) == [t |-> "Q", n |-> id, s |-> <<>>, l |-> <<>>]

\* The IndexSearch object (there is one).
PyIndexSearch == [t |-> "IndexSearch", n |-> 0, s |-> <<>>, l |-> <<>>]

\* The IndexQuery object held by the IndexSearch.
PyIndexQuery == [t |-> "IndexQuery", n |-> 0, s |-> <<>>, l |-> <<>>]

\* Python truthiness, as used by `if self.operator:`.
Truthy(v) ==
    CASE v.t = "NoneType" -> FALSE
      [] v.t = "str" -> v.s # <<>>
      [] v.t = "int" -> v.n # 0
      [] v.t = "bool" -> v.n # 0
      [] v.t = "list" -> v.l # <<>>
      [] OTHER -> TRUE

(***************************************************************************)
(* String primitives of Python used by the code.                           *)
(***************************************************************************)
Digits == <<"0", "1", "2", "3", "4", "5", "6", "7", "8", "9">>

RECURSIVE NatToStr(_)
NatToStr(n) ==
    IF n < 10 THEN <<Digits[n + 1]>>
    ELSE NatToStr(n \div 10) \o <<Digits[(n % 10) + 1]>>

\* str(i) for an int i.
IntToStr(i) == IF i < 0 THEN <<"-">> \o NatToStr(0 - i) ELSE NatToStr(i)

\* sep.join(parts)
RECURSIVE join(_, _)
join(sep, parts) ==
    IF parts = <<>> THEN <<>>
    ELSE IF Len(parts) = 1 THEN parts[1]
    ELSE parts[1] \o sep \o join(sep, Tail(parts))

\* `sub in s` for strings
contains(s, sub) ==
    \E i \in 1..(Len(s) - Len(sub) + 1) : SubSeq(s, i, i + Len(sub) - 1) = sub

\* s.split("__"), scanning left to right; cur is the segment being read.
RECURSIVE split_from(_, _)
split_from(s, cur) ==
    IF s = <<>> THEN <<cur>>
    ELSE IF Len(s) >= 2 /\ s[1] = "_" /\ s[2] = "_"
         THEN <<cur>> \o split_from(SubSeq(s, 3, Len(s)), <<>>)
         ELSE split_from(Tail(s), Append(cur, Head(s)))

split(s) == split_from(s, <<>>)

\* str.lower() on the two texts it is applied to, str(True) and str(False).
lower(s) ==
    [i \in 1..Len(s) |-> CASE s[i] = "T" -> "t" [] s[i] = "F" -> "f" [] OTHER -> s[i]]

\* repr(v) and str(v).  repr of a str uses single quotes (the strings of the
\* model hold no quote or backslash that would change the quoting).
RECURSIVE repr(_)
repr(v) ==
    CASE v.t = "str" -> <<"'">> \o v.s \o <<"'">>
      [] v.t = "int" -> IntToStr(v.n)
      [] v.t = "bool" -> IF v.n = 1 THEN <<"T", "r", "u", "e">>
                         ELSE <<"F", "a", "l", "s", "e">>
      [] v.t = "NoneType" -> <<"N", "o", "n", "e">>
      [] v.t = "list" ->
           <<"[">> \o join(<<",", " ">>, [i \in 1..Len(v.l) |-> repr(v.l[i])]) \o <<"]">>
      [] OTHER -> <<"Q", "(", ")">>

str(v) == IF v.t = "str" THEN v.s ELSE repr(v)

\* f'"{x}"'
quoted(s) == <<"\"">> \o s \o <<"\"">>

(***************************************************************************)
(* Q.OPERATIONS (one definition per member), Q.op_map, Q.negate_map       *)
(***************************************************************************)
OP_EQUALS == <<"e", "q">>

OP_NOT_EQUALS == <<"n", "e", "q">>

OP_GREATER_THAN == <<"g", "t">>

OP_GREATER_THAN_OR_EQUALS == <<"g", "t", "e">>

OP_LESS_THAN == <<"l", "t">>

OP_LESS_THAN_OR_EQUALS == <<"l", "t", "e">>

OP_IN == <<"i", "n">>

OP_NOT_IN == <<"n", "i", "n">>

OP_EXISTS == <<"e", "x", "i", "s", "t", "s">>

OP_NOT_EXISTS == <<"n", "o", "t", " ", "e", "x", "i", "s", "t", "s">>

get_values ==
    <<OP_EQUALS, OP_NOT_EQUALS, OP_GREATER_THAN,
      OP_GREATER_THAN_OR_EQUALS, OP_LESS_THAN,
      OP_LESS_THAN_OR_EQUALS, OP_IN, OP_NOT_IN,
      OP_EXISTS, OP_NOT_EXISTS>>

Range(f) == {f[i] : i \in DOMAIN f}

\* The members of OPERATIONS as a set.
OperationValues == Range(get_values)

T_EQ == <<"=">>
T_NEQ == <<"!", "=">>
T_GT == <<">">>
T_GTE == <<">", "=">>
T_LT == <<"<">>
T_LTE == <<"<", "=">>
T_IN == <<"I", "N">>
T_NOT_IN == <<"N", "O", "T", " ", "I", "N">>
T_EXISTS == <<"E", "X", "I", "S", "T", "S">>
T_NOT_EXISTS == <<"N", "O", "T", " ", "E", "X", "I", "S", "T", "S">>

\* op_map[operation]; only applied to members of get_values.
op_map(operation) ==
    CASE operation = OP_EQUALS -> T_EQ
      [] operation = OP_NOT_EQUALS -> T_NEQ
      [] operation = OP_GREATER_THAN -> T_GT
      [] operation = OP_GREATER_THAN_OR_EQUALS -> T_GTE
      [] operation = OP_LESS_THAN -> T_LT
      [] operation = OP_LESS_THAN_OR_EQUALS -> T_LTE
      [] operation = OP_IN -> T_IN
      [] operation = OP_NOT_IN -> T_NOT_IN
      [] operation = OP_EXISTS -> T_EXISTS
      [] operation = OP_NOT_EXISTS -> T_NOT_EXISTS

\* negate_map with the entries of > and < exchanged.
negate_map_flipped(token) ==
    CASE token = T_EQ -> T_NEQ
      [] token = T_NEQ -> T_EQ
      [] token = T_GT -> T_GTE
      [] token = T_GTE -> T_LT
      [] token = T_LT -> T_LTE
      [] token = T_LTE -> T_GT
      [] token = T_IN -> T_NOT_IN
      [] token = T_NOT_IN -> T_IN
      [] token = T_EXISTS -> T_NOT_EXISTS
      [] token = T_NOT_EXISTS -> T_EXISTS

negate_map(token) ==
    CASE token = T_EQ -> T_NEQ
      [] token = T_NEQ -> T_EQ
      [] token = T_GT -> T_LTE
      [] token = T_GTE -> T_LT
      [] token = T_LT -> T_GTE
      [] token = T_LTE -> T_GT
      [] token = T_IN -> T_NOT_IN
      [] token = T_NOT_IN -> T_IN
      [] token = T_EXISTS -> T_NOT_EXISTS
      [] token = T_NOT_EXISTS -> T_EXISTS

negate_map_values ==
    <<T_NEQ, T_EQ, T_LTE, T_LT, T_GTE, T_GT, T_NOT_IN, T_IN, T_NOT_EXISTS, T_EXISTS>>

(***************************************************************************)
(* Outcome of a call: the exception raised ("" when the call returns) and  *)
(* the value returned.                                                     *)
(***************************************************************************)
Return(v) == [exc |-> "", val |-> v]

Raise(e) == [exc |-> e, val |-> PyNone]

\* The AssertionErrors of to_query_string, told apart by their message.
InvalidOperation == "AssertionError: Invalid operation"

InNotAList == "AssertionError: Value for IN operation must be a list"

NotInNotAList == "AssertionError: Value for NOT_IN operation must be a list"

(***************************************************************************)
(* class Q.  nodes[i] is the Q object with id i; its conditions attribute  *)
(* is the id of a dict object in dicts (a sequence of <<key, value>> in    *)
(* insertion order) and its children attribute the id of a list object in  *)
(* lists (a sequence of Q ids).                                            *)
(***************************************************************************)
\* _clean_value without the quoting of the operator names and tokens.
_clean_value_spaces_only(val) ==
    IF val.t = "str"
    THEN IF contains(val.s, <<" ">>) THEN quoted(val.s) ELSE val.s
    ELSE IF val.t = "bool" THEN lower(str(val))
    ELSE str(val)

\* _clean_value that tests the text of the value, not retval, against the
\* operators.
_clean_value_twice(val) ==
    LET retval == IF val.t = "str"
                  THEN IF contains(val.s, <<" ">>) THEN quoted(val.s) ELSE val.s
                  ELSE IF val.t = "bool" THEN lower(str(val))
                  ELSE str(val)
        expression_ops == get_values \o negate_map_values
    IN  IF str(val) \in Range(expression_ops) THEN quoted(retval) ELSE retval

\* Q._clean_value
_clean_value(val) ==
    LET retval == IF val.t = "str"
                  THEN IF contains(val.s, <<" ">>) THEN quoted(val.s) ELSE val.s
                  ELSE IF val.t = "bool" THEN lower(str(val))
                  ELSE str(val)
        expression_ops == get_values \o negate_map_values
    IN  IF retval \in Range(expression_ops) THEN quoted(retval) ELSE retval

\* The (fields, operation) unpacking of a condition key.
key_parts(key) == IF contains(key, <<"_", "_">>) THEN split(key) ELSE <<key, OP_EQUALS>>

key_operation(key) == LET parts == key_parts(key) IN parts[Len(parts)]

\* key_field that takes the first segment only.
key_field_first(key) == LET parts == key_parts(key) IN parts[1]

key_field(key) == LET parts == key_parts(key) IN join(<<".">>, SubSeq(parts, 1, Len(parts) - 1))

\* "[" + ",".join(_clean_value(i) for i in value) + "]"
escaped_list(value) ==
    <<"[">> \o join(<<",">>, [i \in 1..Len(value.l) |-> _clean_value(value.l[i])]) \o <<"]">>

\* condition_error with the assertion on the NOT_IN value left out.
condition_error_in_only(operation, value) ==
    IF operation \notin OperationValues THEN InvalidOperation
    ELSE IF operation = OP_IN /\ value.t # "list" THEN InNotAList
    ELSE ""

\* condition_error with the assertion on the operation left out.
condition_error_values_only(operation, value) ==
    IF operation = OP_IN /\ value.t # "list" THEN InNotAList
    ELSE IF operation = OP_NOT_IN /\ value.t # "list" THEN NotInNotAList
    ELSE ""

\* The two assertions of an iteration of the loop over the conditions: the
\* exception raised, "" when both pass.
condition_error(operation, value) ==
    IF operation \notin OperationValues THEN InvalidOperation
    ELSE IF operation = OP_IN /\ value.t # "list" THEN InNotAList
    ELSE IF operation = OP_NOT_IN /\ value.t # "list" THEN NotInNotAList
    ELSE ""

\* value_string that passes a value that is not a list through _clean_value.
value_string_cleaned(operation, value) ==
    IF operation \in {OP_IN, OP_NOT_IN} THEN escaped_list(value)
    ELSE _clean_value(value)

\* The text of the value of a condition.
value_string(operation, value) ==
    IF operation \in {OP_IN, OP_NOT_IN} THEN escaped_list(value)
    ELSE IF value.t = "str" /\ contains(value.s, <<" ">>) THEN quoted(value.s)
    ELSE str(value)

\* condition_string that appends the value after every operator.
condition_string_with_value(key, value, negate) ==
    LET operation == key_operation(key)
        field == key_field(key)
        error == condition_error(operation, value)
    IN  IF error # "" THEN Raise(error)
        ELSE IF operation \notin OperationValues THEN Raise("KeyError")
        ELSE LET text == value_string(operation, value)
                 token == IF negate THEN negate_map(op_map(operation)) ELSE op_map(operation)
             IN  Return(PyStr(field \o <<" ">> \o token \o <<" ">> \o text))

\* One iteration of the loop over self.conditions.items() in to_query_string:
\* the text appended to conditions, or the exception raised.  A key missing
\* from op_map is a KeyError.
condition_string(key, value, negate) ==
    LET operation == key_operation(key)
        field == key_field(key)
        error == condition_error(operation, value)
    IN  IF error # "" THEN Raise(error)
        ELSE IF operation \notin OperationValues THEN Raise("KeyError")
        ELSE LET text == value_string(operation, value)
                 token == IF negate THEN negate_map(op_map(operation)) ELSE op_map(operation)
             IN  IF token \in {T_EXISTS, T_NOT_EXISTS}
                 THEN Return(PyStr(field \o <<" ">> \o token))
                 ELSE Return(PyStr(field \o <<" ">> \o token \o <<" ">> \o text))

\* conditions_loop that puts each text before the texts made so far.
RECURSIVE conditions_loop_reversed(_, _, _, _)
conditions_loop_reversed(conds, i, negate, conditions) ==
    IF i > Len(conds)
    THEN Return(PyStr(join(<<" ", "A", "N", "D", " ">>, conditions)))
    ELSE LET r == condition_string(conds[i][1], conds[i][2], negate)
         IN  IF r.exc # "" THEN r
             ELSE conditions_loop_reversed(conds, i + 1, negate, <<r.val.s>> \o conditions)

\* The loop over self.conditions.items() from the i-th condition on, with
\* the texts appended so far, and the final " AND ".join: the first
\* condition that raises ends the call.
RECURSIVE conditions_loop(_, _, _, _)
conditions_loop(conds, i, negate, conditions) ==
    IF i > Len(conds)
    THEN Return(PyStr(join(<<" ", "A", "N", "D", " ">>, conditions)))
    ELSE LET r == condition_string(conds[i][1], conds[i][2], negate)
         IN  IF r.exc # "" THEN r
             ELSE conditions_loop(conds, i + 1, negate, Append(conditions, r.val.s))

leaf_string(conds, negate) == conditions_loop(conds, 1, negate, <<>>)

\* Q.to_query_string
RECURSIVE to_query_string(_)
to_query_string(self) ==
    IF Truthy(nodes[self].operator)
    THEN LET left == to_query_string(lists[nodes[self].children][1])
         IN  IF left.exc # "" THEN left
             ELSE LET right == to_query_string(lists[nodes[self].children][2])
                  IN  IF right.exc # "" THEN right
                      ELSE Return(PyStr(<<"(">> \o left.val.s \o <<")", " ">>
                                        \o nodes[self].operator.s
                                        \o <<" ", "(">> \o right.val.s \o <<")">>))
    ELSE leaf_string(dicts[nodes[self].conditions], nodes[self].negate)

\* n spaces
RECURSIVE spaces(_)
spaces(n) == IF n <= 0 THEN <<>> ELSE <<" ">> \o spaces(n - 1)

\* The last (up to) three elements of the stack of prettify_query_string.
last3(stack) == SubSeq(stack, IF Len(stack) > 3 THEN Len(stack) - 2 ELSE 1, Len(stack))

\* One iteration of the loop of prettify_query_string, on the character
\* char with the locals st; stack.pop() on an empty stack is an IndexError.
prettify_step(st, char) ==
    LET stack == st.stack
        result == st.result
        indent == st.indent
        words == {<<"A", "N", "D">>, <<"O", "R", " ">>}
        branch == CASE char = "(" -> "open"
                    [] char = ")" -> "close"
                    [] char \in {"A", "O"} /\ last3(stack) \in words -> "word"
                    [] OTHER -> "other"
        stack2 == IF branch \in {"open", "other"} THEN Append(stack, char)
                  ELSE SubSeq(stack, 1, Len(stack) - 1)
        indent2 == CASE branch = "open" -> indent + 1
                     [] branch = "close" -> indent - 1
                     [] OTHER -> indent
        result2 == IF branch = "word"
                   THEN result \o <<"\n">> \o spaces(4 * indent) \o <<char>>
                   ELSE Append(result, char)
        result3 == IF Len(stack2) >= 3 /\ last3(stack2) \in words
                   THEN result2 \o <<"\n">> \o spaces(4 * indent2)
                   ELSE result2
    IN  IF branch \in {"close", "word"} /\ stack = <<>>
        THEN [st EXCEPT !.exc = "IndexError"]
        ELSE [stack |-> stack2, result |-> result3, indent |-> indent2, exc |-> ""]

\* The iterations of the loop of prettify_query_string on the characters
\* lo..hi of query_string, in order, from the locals st: those of the first
\* half, then those of the second half from the locals the first half ends
\* with.  An exception ends the loop.
RECURSIVE prettify_loop(_, _, _, _)
prettify_loop(query_string, lo, hi, st) ==
    IF lo > hi \/ st.exc # "" THEN st
    ELSE IF lo = hi THEN prettify_step(st, query_string[lo])
    ELSE LET mid == (lo + hi) \div 2
             first == prettify_loop(query_string, lo, mid, st)
         IN  IF first.exc # "" THEN first
             ELSE prettify_loop(query_string, mid + 1, hi, first)

\* The text explain appends for one condition, or the KeyError of op_map.
explain_condition(key, value, negate, indent_level) ==
    LET operation == key_operation(key)
        field == key_field(key)
    IN  IF operation \notin OperationValues THEN Raise("KeyError")
        ELSE LET token == IF negate THEN negate_map(op_map(operation)) ELSE op_map(operation)
                 explanation ==
                     CASE token = T_EXISTS -> <<"e", "x", "i", "s", "t", "s">>
                       [] token = T_NOT_EXISTS ->
                            <<"d", "o", "e", "s", " ", "n", "o", "t", " ", "e", "x", "i", "s", "t">>
                       [] token = T_IN -> <<"i", "s", " ", "i", "n", " ">> \o str(value)
                       [] token = T_NOT_IN ->
                            <<"i", "s", " ", "n", "o", "t", " ", "i", "n", " ">> \o str(value)
                       [] OTHER -> <<"i", "s", " ">> \o lower(token) \o <<" ">> \o str(value)
             IN  Return(PyStr(spaces(4 * indent_level)
                              \o <<"f", "i", "e", "l", "d", " ", "\"">> \o field
                              \o <<"\"", ":", "\n">> \o spaces(4 * (indent_level + 1))
                              \o <<"*", " ">> \o explanation))

\* The loop of explain over self.conditions.items() and the final join.
RECURSIVE explain_loop(_, _, _, _, _)
explain_loop(conds, i, negate, indent_level, conditions) ==
    IF i > Len(conds) THEN Return(PyStr(join(<<"\n">>, conditions)))
    ELSE LET r == explain_condition(conds[i][1], conds[i][2], negate, indent_level)
         IN  IF r.exc # "" THEN r
             ELSE explain_loop(conds, i + 1, negate, indent_level, Append(conditions, r.val.s))

\* Q.explain
RECURSIVE explain(_, _)
explain(self, indent_level) ==
    IF Truthy(nodes[self].operator)
    THEN LET left == explain(lists[nodes[self].children][1], indent_level + 1)
         IN  IF left.exc # "" THEN left
             ELSE LET right == explain(lists[nodes[self].children][2], indent_level + 1)
                  IN  IF right.exc # "" THEN right
                      ELSE Return(PyStr(spaces(4 * indent_level)
                                        \o <<"B", "E", "G", "I", "N", "\n">> \o left.val.s
                                        \o <<"\n">> \o spaces(4 * indent_level)
                                        \o nodes[self].operator.s \o <<"\n">> \o right.val.s))
    ELSE explain_loop(dicts[nodes[self].conditions], 1, nodes[self].negate, indent_level, <<>>)

\* Q.prettify_query_string
prettify_query_string(self) ==
    LET query_string == to_query_string(self)
    IN  IF query_string.exc # "" THEN query_string
        ELSE LET st == prettify_loop(query_string.val.s, 1, Len(query_string.val.s),
                                     [stack |-> <<>>, result |-> <<>>, indent |-> 0,
                                      exc |-> ""])
             IN  IF st.exc # "" THEN Raise(st.exc) ELSE Return(PyStr(st.result))

\* The Exception of to_query_list.
NestingTooDeep ==
    "Exception: Query nesting too deep, meilisearch only supports 2 levels of nesting"

\* The AssertionErrors of to_query_list, whose message is the text itself
\* and not a ValueError made of it.
InvalidOperationText == "AssertionError: 'Invalid operation'"

InNotAListText == "AssertionError: 'Value for IN operation must be a list'"

NotInNotAListText == "AssertionError: 'Value for NOT_IN operation must be a list'"

\* The two assertions of an iteration of the loop over the conditions in
\* to_query_list: the exception raised, "" when both pass.
list_condition_error(operation, value) ==
    IF operation \notin OperationValues THEN InvalidOperationText
    ELSE IF operation = OP_IN /\ value.t # "list" THEN InNotAListText
    ELSE IF operation = OP_NOT_IN /\ value.t # "list" THEN NotInNotAListText
    ELSE ""

\* The text of the value of a condition in to_query_list.
list_value_string(operation, value) ==
    IF operation = OP_IN
    THEN <<"[">> \o join(<<",">>, [i \in 1..Len(value.l) |-> _clean_value(value.l[i])])
                 \o <<"]">>
    ELSE IF operation = OP_NOT_IN
    THEN <<"[">> \o join(<<",">>, [i \in 1..Len(value.l) |-> _clean_value(value.l[i])])
                 \o <<"]">>
    ELSE IF value.t = "str" /\ contains(value.s, <<" ">>) THEN quoted(value.s)
    ELSE str(value)

\* list_condition_string that takes the operator as written, whatever the
\* negation flag.
list_condition_string_plain(key, value, negate) ==
    LET operation == key_operation(key)
        field == key_field(key)
        error == list_condition_error(operation, value)
    IN  IF error # "" THEN Raise(error)
        ELSE IF operation \notin OperationValues THEN Raise("KeyError")
        ELSE LET text == list_value_string(operation, value)
                 token == op_map(operation)
             IN  IF token \in {T_EXISTS, T_NOT_EXISTS}
                 THEN Return(PyStr(field \o <<" ">> \o token))
                 ELSE Return(PyStr(field \o <<" ">> \o token \o <<" ">> \o text))

\* One iteration of the loop over self.conditions.items() in to_query_list:
\* the text appended to conditions, or the exception raised.
list_condition_string(key, value, negate) ==
    LET operation == key_operation(key)
        field == key_field(key)
        error == list_condition_error(operation, value)
    IN  IF error # "" THEN Raise(error)
        ELSE IF operation \notin OperationValues THEN Raise("KeyError")
        ELSE LET text == list_value_string(operation, value)
                 token == IF negate THEN negate_map(op_map(operation)) ELSE op_map(operation)
             IN  IF token \in {T_EXISTS, T_NOT_EXISTS}
                 THEN Return(PyStr(field \o <<" ">> \o token))
                 ELSE Return(PyStr(field \o <<" ">> \o token \o <<" ">> \o text))

\* The loop over self.conditions.items() in to_query_list from the i-th
\* condition on, with the texts appended so far, and the final " AND ".join.
RECURSIVE list_conditions_loop(_, _, _, _)
list_conditions_loop(conds, i, negate, conditions) ==
    IF i > Len(conds)
    THEN Return(PyStr(join(<<" ", "A", "N", "D", " ">>, conditions)))
    ELSE LET r == list_condition_string(conds[i][1], conds[i][2], negate)
         IN  IF r.exc # "" THEN r
             ELSE list_conditions_loop(conds, i + 1, negate, Append(conditions, r.val.s))

\* The rendering of a leaf by to_query_list: a string, not a list.
list_leaf_string(conds, negate) == list_conditions_loop(conds, 1, negate, <<>>)

\* to_query_list that raises from level 4 on.
RECURSIVE to_query_list_from_4(_, _)
to_query_list_from_4(self, lvl) ==
    IF lvl > 3 THEN Raise(NestingTooDeep)
    ELSE IF Truthy(nodes[self].operator)
    THEN LET left == to_query_list_from_4(lists[nodes[self].children][1], lvl + 1)
         IN  IF left.exc # "" THEN left
             ELSE LET right == to_query_list_from_4(lists[nodes[self].children][2], lvl + 1)
                  IN  IF right.exc # "" THEN right
                      ELSE Return(PyList(<<left.val, right.val>>))
    ELSE list_leaf_string(dicts[nodes[self].conditions], nodes[self].negate)

\* to_query_list that puts the operator between the two renderings.
RECURSIVE to_query_list_with_operator(_, _)
to_query_list_with_operator(self, lvl) ==
    IF lvl > 2 THEN Raise(NestingTooDeep)
    ELSE IF Truthy(nodes[self].operator)
    THEN LET left == to_query_list_with_operator(lists[nodes[self].children][1], lvl + 1)
         IN  IF left.exc # "" THEN left
             ELSE LET right == to_query_list_with_operator(lists[nodes[self].children][2],
                                                           lvl + 1)
                  IN  IF right.exc # "" THEN right
                      ELSE Return(PyList(<<left.val, nodes[self].operator, right.val>>))
    ELSE list_leaf_string(dicts[nodes[self].conditions], nodes[self].negate)

\* Q.to_query_list
RECURSIVE to_query_list(_, _)
to_query_list(self, lvl) ==
    IF lvl > 2 THEN Raise(NestingTooDeep)
    ELSE IF Truthy(nodes[self].operator)
    THEN LET left == to_query_list(lists[nodes[self].children][1], lvl + 1)
         IN  IF left.exc # "" THEN left
             ELSE LET right == to_query_list(lists[nodes[self].children][2], lvl + 1)
                  IN  IF right.exc # "" THEN right
                      ELSE Return(PyList(<<left.val, right.val>>))
    ELSE list_leaf_string(dicts[nodes[self].conditions], nodes[self].negate)

Ids == 1..Len(nodes)

\* _await_running_task has not been called.
NoWait == [pc |-> "idle", subscriptable |-> FALSE, count |-> 0, polls |-> 0,
           status |-> "", outcome |-> ""]

\* No MeiliClient has been constructed.
NoClient == [indexes |-> <<>>, objects |-> 0, server |-> {}, deleted |-> {}]

\* No IndexSearch has been constructed.
NoBuilder == [index_uid |-> PyNone, search |-> PyNone]

NoCall == [op |-> "", self |-> 0, other |-> 0, attr |-> "", value |-> PyNone,
           exc |-> "", val |-> PyNone, map |-> [k \in {} |-> PyNone]]

\* Q_init that gives every Q object the dict of the first one.
Q_init_shared_dict(kwargs) ==
    /\ Len(nodes) < MaxNodes
    /\ dicts' = Append(dicts, kwargs)
    /\ lists' = Append(lists, <<>>)
    /\ nodes' = Append(nodes, [conditions |-> 1, operator |-> PyNone,
                               negate |-> FALSE, children |-> Len(lists) + 1])
    /\ made' = Append(made, [op |-> "Q", self |-> 0, other |-> 0])
    /\ ret' = [NoCall EXCEPT !.op = "Q", !.val = PyQ(Len(nodes) + 1)]
    /\ UNCHANGED <<wait, client, ctor, attrs, calls>>

\* Q.__init__ with keyword arguments kwargs
Q_init(kwargs) ==
    /\ Len(nodes) < MaxNodes
    /\ dicts' = Append(dicts, kwargs)
    /\ lists' = Append(lists, <<>>)
    /\ nodes' = Append(nodes, [conditions |-> Len(dicts) + 1, operator |-> PyNone,
                               negate |-> FALSE, children |-> Len(lists) + 1])
    /\ made' = Append(made, [op |-> "Q", self |-> 0, other |-> 0])
    /\ ret' = [NoCall EXCEPT !.op = "Q", !.val = PyQ(Len(nodes) + 1)]
    /\ UNCHANGED <<wait, client, ctor, attrs, calls>>

\* combine with the children in the order [other, self].
combine_swapped(op, name, self, other) ==
    /\ Len(nodes) < MaxNodes
    /\ dicts' = Append(dicts, <<>>)
    /\ lists' = Append(lists, <<other, self>>)
    /\ nodes' = Append(nodes, [conditions |-> Len(dicts) + 1, operator |-> PyStr(op),
                               negate |-> FALSE, children |-> Len(lists) + 1])
    /\ made' = Append(made, [op |-> name, self |-> self, other |-> other])
    /\ ret' = [NoCall EXCEPT !.op = name, !.self = self, !.other = other,
                             !.val = PyQ(Len(nodes) + 1)]
    /\ UNCHANGED <<wait, client, ctor, attrs, calls>>

\* new_q = Q(); new_q.operator = op; new_q.children = [self, other]
combine(op, name, self, other) ==
    /\ Len(nodes) < MaxNodes
    /\ dicts' = Append(dicts, <<>>)
    /\ lists' = Append(lists, <<self, other>>)
    /\ nodes' = Append(nodes, [conditions |-> Len(dicts) + 1, operator |-> PyStr(op),
                               negate |-> FALSE, children |-> Len(lists) + 1])
    /\ made' = Append(made, [op |-> name, self |-> self, other |-> other])
    /\ ret' = [NoCall EXCEPT !.op = name, !.self = self, !.other = other,
                             !.val = PyQ(Len(nodes) + 1)]
    /\ UNCHANGED <<wait, client, ctor, attrs, calls>>

\* Q.__or__
__or__(self, other) == combine(<<"O", "R">>, "__or__", self, other)

\* Q.__and__
__and__(self, other) == combine(<<"A", "N", "D">>, "__and__", self, other)

\* __invert__ that sets the flag instead of flipping it.
invert_sets_flag(self) ==
    /\ Len(nodes) < MaxNodes
    /\ nodes' = Append(nodes, [conditions |-> nodes[self].conditions,
                               operator |-> nodes[self].operator,
                               negate |-> TRUE,
                               children |-> nodes[self].children])
    /\ made' = Append(made, [op |-> "__invert__", self |-> self, other |-> 0])
    /\ ret' = [NoCall EXCEPT !.op = "__invert__", !.self = self,
                             !.val = PyQ(Len(nodes) + 1)]
    /\ UNCHANGED <<wait, client, dicts, lists, ctor, attrs, calls>>

\* __invert__ that also flips the flag of the object it is called on.
invert_in_place(self) ==
    /\ Len(nodes) < MaxNodes
    /\ nodes' = Append([nodes EXCEPT ![self].negate = ~nodes[self].negate],
                       [conditions |-> nodes[self].conditions,
                        operator |-> nodes[self].operator,
                        negate |-> ~nodes[self].negate,
                        children |-> nodes[self].children])
    /\ made' = Append(made, [op |-> "__invert__", self |-> self, other |-> 0])
    /\ ret' = [NoCall EXCEPT !.op = "__invert__", !.self = self,
                             !.val = PyQ(Len(nodes) + 1)]
    /\ UNCHANGED <<wait, client, dicts, lists, ctor, attrs, calls>>

\* Q.__invert__: the new object takes the dict and the list of self.
__invert__(self) ==
    /\ Len(nodes) < MaxNodes
    /\ nodes' = Append(nodes, [conditions |-> nodes[self].conditions,
                               operator |-> nodes[self].operator,
                               negate |-> ~nodes[self].negate,
                               children |-> nodes[self].children])
    /\ made' = Append(made, [op |-> "__invert__", self |-> self, other |-> 0])
    /\ ret' = [NoCall EXCEPT !.op = "__invert__", !.self = self,
                             !.val = PyQ(Len(nodes) + 1)]
    /\ UNCHANGED <<wait, client, dicts, lists, ctor, attrs, calls>>

\* ToQueryString that stores the text of a list value back in the conditions
\* of the leaf it is called on.
ToQueryString_writes_back(self) ==
    /\ LET r == to_query_string(self)
       IN  ret' = [NoCall EXCEPT !.op = "to_query_string", !.self = self,
                                 !.exc = r.exc, !.val = r.val]
    /\ dicts' = [dicts EXCEPT ![nodes[self].conditions] =
                    [i \in 1..Len(@) |->
                        IF key_operation(@[i][1]) \in {OP_IN, OP_NOT_IN} /\ @[i][2].t = "list"
                        THEN <<@[i][1], PyStr(escaped_list(@[i][2]))>>
                        ELSE @[i]]]
    /\ UNCHANGED <<wait, client, nodes, lists, made, ctor, attrs, calls>>

\* A call of to_query_string on a Q object.
ToQueryString(self) ==
    /\ LET r == to_query_string(self)
       IN  ret' = [NoCall EXCEPT !.op = "to_query_string", !.self = self,
                                 !.exc = r.exc, !.val = r.val]
    /\ UNCHANGED <<wait, client, nodes, dicts, lists, made, ctor, attrs, calls>>

\* A call of to_query_list, with the default lvl, on a Q object.
ToQueryList(self) ==
    /\ LET r == to_query_list(self, 0)
       IN  ret' = [NoCall EXCEPT !.op = "to_query_list", !.self = self,
                                 !.exc = r.exc, !.val = r.val]
    /\ UNCHANGED <<wait, client, nodes, dicts, lists, made, ctor, attrs, calls>>

\* A call of to_query_list with the level lvl on a Q object.
ToQueryListLvl(self, lvl) ==
    /\ LET r == to_query_list(self, lvl)
       IN  ret' = [NoCall EXCEPT !.op = "to_query_list", !.self = self,
                                 !.value = PyInt(lvl), !.exc = r.exc, !.val = r.val]
    /\ UNCHANGED <<wait, client, nodes, dicts, lists, made, ctor, attrs, calls>>

\* A call of prettify_query_string on a Q object.
PrettifyQueryString(self) ==
    /\ LET r == prettify_query_string(self)
       IN  ret' = [NoCall EXCEPT !.op = "prettify_query_string", !.self = self,
                                 !.exc = r.exc, !.val = r.val]
    /\ UNCHANGED <<wait, client, nodes, dicts, lists, made, ctor, attrs, calls>>

\* A call of explain, with the default indent_level, on a Q object.
Explain(self) ==
    /\ LET r == explain(self, 0)
       IN  ret' = [NoCall EXCEPT !.op = "explain", !.self = self,
                                 !.exc = r.exc, !.val = r.val]
    /\ UNCHANGED <<wait, client, nodes, dicts, lists, made, ctor, attrs, calls>>

(***************************************************************************)
(* class IndexQuery and class IndexSearch.                                 *)
(***************************************************************************)
\* IndexQuery._attributes: the option names and their annotations, in order.
_attributes ==
    << <<"filter", "Optional[Q]">>,
       <<"limit", "Optional[int]">>,
       <<"offset", "Optional[int]">>,
       <<"hits_per_page", "Optional[int]">>,
       <<"page", "Optional[int]">>,
       <<"facets", "Optional[List[str]]">>,
       <<"attributes_to_retrieve", "Optional[List[str]]">>,
       <<"attributes_to_crop", "Optional[List[str]]">>,
       <<"crop_length", "Optional[int]">>,
       <<"crop_marker", "Optional[str]">>,
       <<"attributes_to_highlight", "Optional[List[str]]">>,
       <<"highlight_pre_tag", "Optional[str]">>,
       <<"highlight_post_tag", "Optional[str]">>,
       <<"show_matches_position", "Optional[bool]">>,
       <<"sort", "Optional[List[str]]">>,
       <<"matching_strategy", "Optional[str]">> >>

\* The keys of _attributes.
AttrNames == {_attributes[i][1] : i \in DOMAIN _attributes}

\* IndexQuery.__init__: the instance attributes after construction.
IndexQuery_init(index_uid, search_query) ==
    [k \in {"index_uid", "search_query"} \cup AttrNames |->
        CASE k = "index_uid" -> index_uid
          [] k = "search_query" -> search_query
          [] OTHER -> PyNone]

\* get_dict whose loop also copies the attributes that are None.
RECURSIVE get_dict_loop_all(_, _)
get_dict_loop_all(i, return_dict) ==
    IF i > Len(_attributes) THEN [exc |-> "", map |-> return_dict]
    ELSE get_dict_loop_all(i + 1, (_attributes[i][1] :> attrs[_attributes[i][1]]) @@ return_dict)

\* The loop of IndexQuery.get_dict from the i-th entry of _attributes on.
\* The annotation of an attribute is compared with the class Q itself.
RECURSIVE get_dict_loop(_, _)
get_dict_loop(i, return_dict) ==
    IF i > Len(_attributes) THEN [exc |-> "", map |-> return_dict]
    ELSE LET attr == _attributes[i][1]
             attr_type == _attributes[i][2]
             value == attrs[attr]
         IN  IF value # PyNone
             THEN IF attr_type # "Q"
                  THEN get_dict_loop(i + 1, (attr :> value) @@ return_dict)
                  ELSE IF value.t # "Q"
                       THEN [exc |-> "AttributeError", map |-> [k \in {} |-> PyNone]]
                       ELSE IF to_query_string(value.n).exc # ""
                            THEN [exc |-> to_query_string(value.n).exc,
                                  map |-> [k \in {} |-> PyNone]]
                            ELSE get_dict_loop(i + 1,
                                     (attr :> to_query_string(value.n).val) @@ return_dict)
             ELSE get_dict_loop(i + 1, return_dict)

\* IndexQuery.get_dict
get_dict ==
    get_dict_loop(1, ("indexUid" :> attrs["index_uid"]) @@ ("q" :> attrs["search_query"]))

\* set_attr without the test of the name.
set_attr_unchecked(attr, value) ==
    [exc |-> "", attrs |-> (attr :> value) @@ attrs]

\* IndexQuery.set_attr: the exception raised and the instance attributes after
\* the call.
set_attr(attr, value) ==
    IF attr \notin AttrNames
    THEN [exc |-> "AttributeError", attrs |-> attrs]
    ELSE [exc |-> "", attrs |-> (attr :> value) @@ attrs]

\* A call of IndexQuery.set_attr on the IndexQuery of the builder.
SetAttr(attr, value) ==
    /\ calls < MaxCalls
    /\ calls' = calls + 1
    /\ attrs' = set_attr(attr, value).attrs
    /\ ret' = [NoCall EXCEPT !.op = "set_attr", !.attr = attr, !.value = value,
                             !.exc = set_attr(attr, value).exc,
                             !.val = IF set_attr(attr, value).exc = ""
                                     THEN PyIndexQuery ELSE PyNone]
    /\ UNCHANGED <<wait, client, nodes, dicts, lists, made, ctor>>

\* Setters with crop_attributes passing the option of retrieve_attributes.
Setters_crossed ==
    [filter |-> "filter", limit |-> "limit", offset |-> "offset",
     hits_per_page |-> "hits_per_page", page |-> "page", facets |-> "facets",
     retrieve_attributes |-> "attributes_to_retrieve",
     crop_attributes |-> "attributes_to_retrieve",
     crop_length |-> "crop_length", crop_marker |-> "crop_marker",
     highlight_attributes |-> "attributes_to_highlight",
     highlight_pre_tag |-> "highlight_pre_tag",
     highlight_post_tag |-> "highlight_post_tag",
     show_matches_position |-> "show_matches_position",
     sort |-> "sort", matching_strategy |-> "matching_strategy"]

\* The setters of IndexSearch and the option each passes to set_attr.
Setters ==
    [filter |-> "filter", limit |-> "limit", offset |-> "offset",
     hits_per_page |-> "hits_per_page", page |-> "page", facets |-> "facets",
     retrieve_attributes |-> "attributes_to_retrieve",
     crop_attributes |-> "attributes_to_crop",
     crop_length |-> "crop_length", crop_marker |-> "crop_marker",
     highlight_attributes |-> "attributes_to_highlight",
     highlight_pre_tag |-> "highlight_pre_tag",
     highlight_post_tag |-> "highlight_post_tag",
     show_matches_position |-> "show_matches_position",
     sort |-> "sort", matching_strategy |-> "matching_strategy"]

\* A call of the setter `method` of IndexSearch.
Setter(method, value) ==
    /\ calls < MaxCalls
    /\ calls' = calls + 1
    /\ attrs' = set_attr(Setters[method], value).attrs
    /\ ret' = [NoCall EXCEPT !.op = method, !.attr = Setters[method], !.value = value,
                             !.exc = set_attr(Setters[method], value).exc,
                             !.val = IF set_attr(Setters[method], value).exc = ""
                                     THEN PyIndexSearch ELSE PyNone]
    /\ UNCHANGED <<wait, client, nodes, dicts, lists, made, ctor>>

\* IndexSearch.query
Query ==
    /\ ret' = [NoCall EXCEPT !.op = "query", !.exc = get_dict.exc, !.map = get_dict.map]
    /\ UNCHANGED <<wait, client, nodes, dicts, lists, made, ctor, attrs, calls>>

(***************************************************************************)
(* Inputs.                                                                 *)
(***************************************************************************)
K_name == <<"n", "a", "m", "e">>
K_age_gt == <<"a", "g", "e", "_", "_", "g", "t">>
K_age_foo == <<"a", "g", "e", "_", "_", "f", "o", "o">>
K_cat_nin == <<"c", "a", "t", "_", "_", "n", "i", "n">>

V_a == PyStr(<<"a">>)
V_b_c == PyStr(<<"b", " ", "c">>)
\* a str that holds a double quote and a space
V_quote == PyStr(<<"a", "\"", " ", "b">>)

\* The keyword arguments of the Q(...) calls of the tree specification.
Kwargs == { << <<K_age_gt, PyInt(19)>> >> }

\* The keyword arguments of the Q(...) calls of the error specification: a
\* leaf whose second key has an unknown operator suffix and a leaf that
\* gives nin a str.
KwargsErr ==
    { << <<K_name, V_a>>, <<K_age_foo, PyInt(1)>> >>,
      << <<K_cat_nin, V_a>> >> }

\* The keys and values of the single condition of the leaf specification.
F == <<"f">>
DU == <<"_", "_">>

LeafKeys ==
    {F} \cup {F \o DU \o op : op \in OperationValues}
        \cup { F \o DU \o <<"f", "o", "o">>,
               F \o DU,
               F \o <<"_">> \o DU \o OP_EQUALS,
               <<"a">> \o DU \o <<"b">> \o DU \o OP_GREATER_THAN,
               <<"a">> \o DU \o <<"b">> \o DU \o <<"c">> \o DU \o OP_LESS_THAN_OR_EQUALS }

Elems ==
    { V_a, V_b_c, PyInt(12), PyInt(0 - 3), PyBool(TRUE),
      PyStr(OP_IN), PyStr(T_GTE), PyStr(T_NOT_IN) }

LeafValues ==
    Elems \cup {PyNone, PyBool(FALSE), V_quote}
          \cup {PyList(l) : l \in UNION {[1..k -> Elems] : k \in 0..MaxListLen}}

\* The keyword arguments of the Q(...) calls of the renderers specification:
\* a leaf with a list value and a str value, and a leaf with an unknown
\* operator suffix.
KwargsRender ==
    { << <<K_cat_nin, PyList(<<V_a, V_b_c>>)>>, <<K_name, V_b_c>> >>,
      << <<K_age_foo, PyInt(1)>> >> }

\* The keyword arguments a leaf of the conditions specification is made
\* from, each with its own key.
K_f_exists == F \o DU \o OP_EXISTS

CondPool ==
    << <<K_name, V_b_c>>, <<K_age_gt, PyInt(19)>>,
       <<K_cat_nin, PyList(<<V_a>>)>>, <<K_f_exists, PyBool(TRUE)>> >>

\* The arguments of the IndexSearch constructor.
IndexUids == {PyStr(<<"i", "1">>), PyStr(<<"i", "2">>)}

Searches == {PyStr(<<"J", "o", "h", "n">>)}

\* The values passed to the setter of an option: None, and a value of the
\* annotated type (falsy for offset, crop_marker and show_matches_position).
OptionValues(attr) ==
    {PyNone} \cup
    CASE attr = "filter" -> {PyQ(id) : id \in Ids}
      [] attr \in {"limit", "hits_per_page", "page", "crop_length"} -> {PyInt(2)}
      [] attr = "offset" -> {PyInt(0)}
      [] attr \in {"facets", "attributes_to_retrieve", "attributes_to_crop",
                   "attributes_to_highlight", "sort"} -> {PyList(<<V_a>>)}
      [] attr = "crop_marker" -> {PyStr(<<>>)}
      [] attr = "show_matches_position" -> {PyBool(FALSE)}
      [] OTHER -> {V_a}

\* Names passed to set_attr that are not options.
OtherNames == {"index_uid", "search_query", "indexUid", "hitsPerPage"}

(***************************************************************************)
(* The Q algebra: objects are constructed, composed and rendered.          *)
(***************************************************************************)
Init ==
    /\ wait = NoWait
    /\ client = NoClient
    /\ nodes = <<>>
    /\ dicts = <<>>
    /\ lists = <<>>
    /\ made = <<>>
    /\ ctor = NoBuilder
    /\ attrs = [k \in {} |-> PyNone]
    /\ calls = 0
    /\ ret = NoCall

Next ==
    \/ \E kwargs \in Kwargs : Q_init(kwargs)
    \/ \E self \in Ids, other \in Ids : __or__(self, other)
    \/ \E self \in Ids, other \in Ids : __and__(self, other)
    \/ \E self \in Ids : __invert__(self)
    \/ \E self \in Ids : ToQueryString(self)

Spec == Init /\ [][Next]_vars

(***************************************************************************)
(* The Q algebra with the trees rendered as nested lists.                  *)
(***************************************************************************)
NextList ==
    \/ \E kwargs \in Kwargs : Q_init(kwargs)
    \/ \E self \in Ids, other \in Ids : __or__(self, other)
    \/ \E self \in Ids, other \in Ids : __and__(self, other)
    \/ \E self \in Ids : __invert__(self)
    \/ \E self \in Ids : ToQueryList(self)

SpecList == Init /\ [][NextList]_vars

(***************************************************************************)
(* The Q algebra on leaves that fail to render.                            *)
(***************************************************************************)
NextErr ==
    \/ \E kwargs \in KwargsErr : Len(nodes) < MaxErrNodes /\ Q_init(kwargs)
    \/ \E self \in Ids, other \in Ids : Len(nodes) < MaxErrNodes /\ __or__(self, other)
    \/ \E self \in Ids, other \in Ids : Len(nodes) < MaxErrNodes /\ __and__(self, other)
    \/ \E self \in Ids : Len(nodes) < MaxErrNodes /\ __invert__(self)
    \/ \E self \in Ids : ToQueryString(self)

SpecErr == Init /\ [][NextErr]_vars

(***************************************************************************)
(* The Q algebra on few objects, for the properties that compare the       *)
(* objects before and after a call.                                        *)
(***************************************************************************)
NextFrame ==
    \/ \E kwargs \in Kwargs : Len(nodes) < MaxFrameNodes /\ Q_init(kwargs)
    \/ \E self \in Ids, other \in Ids : Len(nodes) < MaxFrameNodes /\ __or__(self, other)
    \/ \E self \in Ids, other \in Ids : Len(nodes) < MaxFrameNodes /\ __and__(self, other)
    \/ \E self \in Ids : Len(nodes) < MaxFrameNodes /\ __invert__(self)
    \/ \E self \in Ids : ToQueryString(self)

SpecFrame == Init /\ [][NextFrame]_vars

(***************************************************************************)
(* The Q algebra with the four renderers.                                  *)
(***************************************************************************)
NextRender ==
    \/ \E kwargs \in KwargsRender : Len(nodes) < MaxRenderNodes /\ Q_init(kwargs)
    \/ \E self \in Ids, other \in Ids : Len(nodes) < MaxRenderNodes /\ __or__(self, other)
    \/ \E self \in Ids, other \in Ids : Len(nodes) < MaxRenderNodes /\ __and__(self, other)
    \/ \E self \in Ids : Len(nodes) < MaxRenderNodes /\ __invert__(self)
    \/ \E self \in Ids : ToQueryString(self)
    \/ \E self \in Ids : ToQueryList(self)
    \/ \E self \in Ids : PrettifyQueryString(self)
    \/ \E self \in Ids : Explain(self)

SpecRender == Init /\ [][NextRender]_vars

(***************************************************************************)
(* One leaf with a single condition, negated and rendered.                 *)
(***************************************************************************)
InitLeaf ==
    /\ wait = NoWait
    /\ client = NoClient
    /\ \E key \in LeafKeys, value \in LeafValues : dicts = << << <<key, value>> >> >>
    /\ lists = << <<>> >>
    /\ nodes = <<[conditions |-> 1, operator |-> PyNone, negate |-> FALSE, children |-> 1]>>
    /\ made = <<[op |-> "Q", self |-> 0, other |-> 0]>>
    /\ ctor = NoBuilder
    /\ attrs = [k \in {} |-> PyNone]
    /\ calls = 0
    /\ ret = [NoCall EXCEPT !.op = "Q", !.val = PyQ(1)]

NextLeaf ==
    \/ \E self \in Ids : Len(nodes) < MaxLeafNodes /\ __invert__(self)
    \/ \E self \in Ids : ToQueryString(self)

SpecLeaf == InitLeaf /\ [][NextLeaf]_vars

(***************************************************************************)
(* One leaf with two or more conditions, given in any order, negated and   *)
(* rendered.                                                               *)
(***************************************************************************)
InitConds ==
    /\ wait = NoWait
    /\ client = NoClient
    /\ \E n \in 2..MaxConds :
          \E order \in [1..n -> DOMAIN CondPool] :
              /\ \A i \in 1..n, j \in 1..n : order[i] = order[j] => i = j
              /\ dicts = << [i \in 1..n |-> CondPool[order[i]]] >>
    /\ lists = << <<>> >>
    /\ nodes = <<[conditions |-> 1, operator |-> PyNone, negate |-> FALSE, children |-> 1]>>
    /\ made = <<[op |-> "Q", self |-> 0, other |-> 0]>>
    /\ ctor = NoBuilder
    /\ attrs = [k \in {} |-> PyNone]
    /\ calls = 0
    /\ ret = [NoCall EXCEPT !.op = "Q", !.val = PyQ(1)]

NextConds ==
    \/ \E self \in Ids : Len(nodes) < MaxLeafNodes /\ __invert__(self)
    \/ \E self \in Ids : ToQueryString(self)

SpecConds == InitConds /\ [][NextConds]_vars

(***************************************************************************)
(* One leaf with one or more conditions, negated and rendered as a list    *)
(* from the levels 0 to 3.                                                 *)
(***************************************************************************)
Lvls == 0..3

InitLeafList == InitLeaf \/ InitConds

NextLeafList ==
    \/ \E self \in Ids : Len(nodes) < MaxLeafNodes /\ __invert__(self)
    \/ \E self \in Ids, lvl \in Lvls : ToQueryListLvl(self, lvl)

SpecLeafList == InitLeafList /\ [][NextLeafList]_vars

(***************************************************************************)
(* The request-options builder: an IndexSearch is constructed when the Q   *)
(* objects Q(age__gt=19), Q(name="b c") and their disjunction exist; its   *)
(* setters and IndexQuery.set_attr are called and query() is taken.        *)
(***************************************************************************)
InitIS ==
    /\ wait = NoWait
    /\ client = NoClient
    /\ dicts = << << <<K_age_gt, PyInt(19)>> >>, << <<K_name, V_b_c>> >>, <<>> >>
    /\ lists = << <<>>, <<>>, <<1, 2>> >>
    /\ nodes = << [conditions |-> 1, operator |-> PyNone, negate |-> FALSE, children |-> 1],
                  [conditions |-> 2, operator |-> PyNone, negate |-> FALSE, children |-> 2],
                  [conditions |-> 3, operator |-> PyStr(<<"O", "R">>), negate |-> FALSE,
                   children |-> 3] >>
    /\ made = << [op |-> "Q", self |-> 0, other |-> 0],
                 [op |-> "Q", self |-> 0, other |-> 0],
                 [op |-> "__or__", self |-> 1, other |-> 2] >>
    /\ \E index_uid \in IndexUids, search \in Searches :
          /\ ctor = [index_uid |-> index_uid, search |-> search]
          /\ attrs = IndexQuery_init(index_uid, search)
    /\ calls = 0
    /\ ret = [NoCall EXCEPT !.op = "IndexSearch", !.val = PyIndexSearch]

NextIS ==
    \/ \E method \in DOMAIN Setters :
          \E value \in OptionValues(Setters[method]) : Setter(method, value)
    \/ \E attr \in AttrNames \cup OtherNames :
          \E value \in OptionValues(attr) : SetAttr(attr, value)
    \/ Query

SpecIS == InitIS /\ [][NextIS]_vars

(***************************************************************************)
(* MeiliIndex._await_running_task: the loop that polls the client for the  *)
(* status of a task.  wait.pc is the position in the loop, wait.count the  *)
(* local count in tenths of a second, wait.polls the number of get_task    *)
(* calls made, wait.status the status of the task of the last poll and     *)
(* wait.outcome how the call ended.                                        *)
(***************************************************************************)
\* timeout_seconds = 10
timeout_seconds == 10

\* sleep(0.5); count += 0.5, in tenths of a second.
sleep_tenths == 5

\* The statuses client.get_task reports for a task.
TaskStatuses == {"enqueued", "processing", "succeeded", "failed"}

\* The object given as task_info: read by attribute (task_info.task_uid) on
\* every poll and by subscript (task_info['type']) when the time is up.
\* Whether the subscript is defined depends on the object; on one that only
\* has attributes it is a TypeError.
TaskInfos == BOOLEAN

\* _await_running_task(task_info) is entered: complete = False, count = 0.
AwaitRunningTask(task_info) ==
    /\ wait.pc \in {"idle", "done"}
    /\ wait' = [pc |-> "test", subscriptable |-> task_info, count |-> 0, polls |-> 0,
                status |-> "", outcome |-> ""]
    /\ UNCHANGED <<client, nodes, dicts, lists, made, ctor, attrs, calls, ret>>

\* while not complete: if count > timeout_seconds: print(...); break, and
\* then return None.  The first argument of print subscripts task_info.
WhileTest ==
    /\ wait.pc = "test"
    /\ wait' = IF wait.count > timeout_seconds * 10
               THEN IF wait.subscriptable
                    THEN [wait EXCEPT !.pc = "done", !.outcome = "None"]
                    ELSE [wait EXCEPT !.pc = "done", !.outcome = "TypeError"]
               ELSE [wait EXCEPT !.pc = "poll"]
    /\ UNCHANGED <<client, nodes, dicts, lists, made, ctor, attrs, calls, ret>>

\* task = self.client.get_task(task_info.task_uid) returns a task.
GetTask(status) ==
    /\ wait.pc = "poll"
    /\ wait' = [wait EXCEPT !.pc = "check", !.polls = @ + 1, !.status = status]
    /\ UNCHANGED <<client, nodes, dicts, lists, made, ctor, attrs, calls, ret>>

\* if task["status"] == "succeeded": return task
\* if task["status"] == "failed": raise Exception(...)
CheckStatus ==
    /\ wait.pc = "check"
    /\ wait' = CASE wait.status = "succeeded" ->
                      [wait EXCEPT !.pc = "done", !.outcome = "task"]
                 [] wait.status = "failed" ->
                      [wait EXCEPT !.pc = "done", !.outcome = "Exception"]
                 [] OTHER -> [wait EXCEPT !.pc = "sleep"]
    /\ UNCHANGED <<client, nodes, dicts, lists, made, ctor, attrs, calls, ret>>

\* sleep(0.5); count += 0.5
Sleep ==
    /\ wait.pc = "sleep"
    /\ wait' = [wait EXCEPT !.pc = "test", !.count = @ + sleep_tenths]
    /\ UNCHANGED <<client, nodes, dicts, lists, made, ctor, attrs, calls, ret>>

\* The steps of one call of _await_running_task.
AwaitSteps ==
    \/ WhileTest
    \/ \E status \in TaskStatuses : GetTask(status)
    \/ CheckStatus
    \/ Sleep

NextWait ==
    \/ \E task_info \in TaskInfos : AwaitRunningTask(task_info)
    \/ WhileTest
    \/ \E status \in TaskStatuses : GetTask(status)
    \/ CheckStatus
    \/ Sleep

\* A call that has started keeps running, and every get_task call returns.
SpecWait == Init /\ [][NextWait]_vars /\ WF_vars(AwaitSteps)

(***************************************************************************)
(* MeiliClient: the registry of MeiliIndex objects by index name.          *)
(* client.indexes is self.indexes as a sequence of <<name, object>> pairs  *)
(* in insertion order, client.objects the number of MeiliIndex objects     *)
(* constructed (the n-th is object n), client.server the names of the      *)
(* indexes on the server and client.deleted the objects delete_index was   *)
(* called for.                                                             *)
(***************************************************************************)
IndexNames == {"books", "movies", "songs", "users"}

PrimaryKeys == {"id", "isbn"}

PyMeiliIndex(id) == [t |-> "MeiliIndex", n |-> id, s |-> <<>>, l |-> <<>>]

\* index_name in self.indexes
InIndexes(index_name) == \E i \in 1..Len(client.indexes) : client.indexes[i][1] = index_name

\* self.indexes[index_name], 0 when there is no such key.
IndexOf(index_name) ==
    IF InIndexes(index_name)
    THEN client.indexes[CHOOSE i \in 1..Len(client.indexes) :
                            client.indexes[i][1] = index_name][2]
    ELSE 0

\* The methods of MeiliIndex.
MeiliIndexMethods ==
    {"get_index", "create_index", "update_filterable_attributes",
     "aupdate_filterable_attributes", "update_searchable_attributes",
     "aupdate_searchable_attributes", "update_displayed_attributes",
     "aupdate_displayed_attributes", "update_ranking_rules", "aupdate_ranking_rules",
     "get_settings", "aget_settings", "update_settings", "aupdate_settings",
     "add_documents", "aadd_documents", "update_document", "aupdate_documents",
     "delete_document", "adelete_document", "delete_all_documents",
     "adelete_all_documents", "search", "_await_running_task",
     "_call_long_index_method"}

\* MeiliClient(host, master_key): self.indexes = {}, over a server that has
\* some indexes already.
InitClient ==
    /\ wait = NoWait
    /\ \E server \in SUBSET IndexNames :
          client = [indexes |-> <<>>, objects |-> 0, server |-> server, deleted |-> {}]
    /\ dicts = <<>>
    /\ lists = <<>>
    /\ nodes = <<>>
    /\ made = <<>>
    /\ ctor = NoBuilder
    /\ attrs = [k \in {} |-> PyNone]
    /\ calls = 0
    /\ ret = NoCall

\* get_index(index_name, primary_key): the registered object, or a new
\* MeiliIndex, which gets the index from the server or creates it there,
\* registered under index_name.
get_index(index_name, primary_key) ==
    /\ IF ~InIndexes(index_name)
       THEN client' = [client EXCEPT
                          !.indexes = Append(@, <<index_name, client.objects + 1>>),
                          !.objects = @ + 1,
                          !.server = @ \cup {index_name}]
       ELSE client' = client
    /\ ret' = [NoCall EXCEPT !.op = "get_index", !.attr = index_name,
                             !.self = IndexOf(index_name),
                             !.val = IF InIndexes(index_name)
                                     THEN PyMeiliIndex(IndexOf(index_name))
                                     ELSE PyMeiliIndex(client.objects + 1)]
    /\ UNCHANGED <<wait, nodes, dicts, lists, made, ctor, attrs, calls>>

\* delete_index(index_name): for a registered name, self.indexes[index_name]
\* .delete() and then del self.indexes[index_name]; MeiliIndex has no
\* attribute delete, so the first raises AttributeError.  For any other name,
\* self.client.delete_index(index_name).
delete_index(index_name) ==
    /\ IF InIndexes(index_name)
       THEN IF "delete" \in MeiliIndexMethods
            THEN /\ client' = [client EXCEPT
                                  !.indexes = SelectSeq(@, LAMBDA e : e[1] # index_name),
                                  !.server = @ \ {index_name},
                                  !.deleted = @ \cup {IndexOf(index_name)}]
                 /\ ret' = [NoCall EXCEPT !.op = "delete_index", !.attr = index_name,
                                          !.self = IndexOf(index_name)]
            ELSE /\ client' = [client EXCEPT !.deleted = @ \cup {IndexOf(index_name)}]
                 /\ ret' = [NoCall EXCEPT !.op = "delete_index", !.attr = index_name,
                                          !.self = IndexOf(index_name),
                                          !.exc = "AttributeError"]
       ELSE /\ client' = [client EXCEPT !.server = @ \ {index_name}]
            /\ ret' = [NoCall EXCEPT !.op = "delete_index", !.attr = index_name]
    /\ UNCHANGED <<wait, nodes, dicts, lists, made, ctor, attrs, calls>>

NextClient ==
    \/ \E index_name \in IndexNames, primary_key \in PrimaryKeys :
          get_index(index_name, primary_key)
    \/ \E index_name \in IndexNames : delete_index(index_name)

SpecClient == InitClient /\ [][NextClient]_vars

(***************************************************************************)
(* Properties.                                                             *)
(***************************************************************************)
\* The key and the value of the first condition of the Q object n.
KeyOf(n) == dicts[nodes[n].conditions][1][1]

ValueOf(n) == dicts[nodes[n].conditions][1][2]

\* The conditions of the tree under n in the order to_query_string visits them.
RECURSIVE Flat(_)
Flat(n) ==
    IF Truthy(nodes[n].operator)
    THEN Flat(lists[nodes[n].children][1]) \o Flat(lists[nodes[n].children][2])
    ELSE dicts[nodes[n].conditions]

\* C1: when A & B (A | B) has just returned c, c renders as "(" + the
\* rendering of A + ") AND (" + the rendering of B + ")" (OR for |), left
\* operand first; when A or B fails to render so does c.
C1_Parenthesized ==
    ret.op \in {"__and__", "__or__"} =>
        LET A == to_query_string(ret.self)
            B == to_query_string(ret.other)
            c == to_query_string(ret.val.n)
            word == IF ret.op = "__and__" THEN <<"A", "N", "D">> ELSE <<"O", "R">>
        IN  IF A.exc = "" /\ B.exc = ""
            THEN /\ c.exc = ""
                 /\ c.val.s = <<"(">> \o A.val.s \o <<")", " ">> \o word
                                \o <<" ", "(">> \o B.val.s \o <<")">>
            ELSE c.exc # ""

\* A & B has returned with A a combinator and B a leaf, and the result renders.
C1_Witness ==
    /\ ret.op = "__and__"
    /\ Truthy(nodes[ret.self].operator)
    /\ ~Truthy(nodes[ret.other].operator)
    /\ to_query_string(ret.val.n).exc = ""

\* C2: when ~leaf has just returned for a leaf that is not negated and has
\* one condition that renders, the negated leaf renders the same field and
\* value with the operator token replaced through the table = <-> !=,
\* > <-> <=, >= <-> <, IN <-> NOT IN, EXISTS <-> NOT EXISTS.
C2_NegateOnce ==
    (ret.op = "__invert__" /\ ~nodes[ret.self].negate
        /\ Len(dicts[nodes[ret.self].conditions]) = 1
        /\ to_query_string(ret.self).exc = "") =>
        LET a == to_query_string(ret.self).val.s
            b == to_query_string(ret.val.n)
            sp == CHOOSE i \in 1..Len(a) : a[i] = " " /\ \A j \in 1..(i - 1) : a[j] # " "
            p == SubSeq(a, 1, sp)
            table == { <<T_EQ, T_NEQ>>, <<T_NEQ, T_EQ>>, <<T_GT, T_LTE>>, <<T_LTE, T_GT>>,
                       <<T_GTE, T_LT>>, <<T_LT, T_GTE>>, <<T_IN, T_NOT_IN>>,
                       <<T_NOT_IN, T_IN>>, <<T_EXISTS, T_NOT_EXISTS>>,
                       <<T_NOT_EXISTS, T_EXISTS>> }
        IN  /\ b.exc = ""
            /\ \E pair \in table :
                 LET rest == SubSeq(a, Len(p) + Len(pair[1]) + 1, Len(a))
                 IN  /\ a = p \o pair[1] \o rest
                     /\ rest = <<>> \/ Head(rest) = " "
                     /\ b.val.s = p \o pair[2] \o rest
                     /\ pair[1] = op_map(key_operation(KeyOf(ret.self)))

\* A leaf f__lte = "b c" has been negated once.
C2_Witness ==
    /\ ret.op = "__invert__"
    /\ ~nodes[ret.self].negate
    /\ KeyOf(ret.self) = F \o DU \o OP_LESS_THAN_OR_EQUALS
    /\ ValueOf(ret.self) = V_b_c
    /\ to_query_string(ret.val.n).exc = ""

\* C3: when ~m has just returned and m was itself returned by ~q, the
\* result renders exactly as q does (the same string or the same error).
C3_DoubleNegation ==
    (ret.op = "__invert__" /\ made[ret.self].op = "__invert__") =>
        to_query_string(ret.val.n) = to_query_string(made[ret.self].self)

\* ~~q has returned for a leaf q that carries the negation flag, and ~q
\* renders differently from q.
C3_Witness ==
    /\ ret.op = "__invert__"
    /\ made[ret.self].op = "__invert__"
    /\ nodes[made[ret.self].self].negate
    /\ to_query_string(ret.self) # to_query_string(made[ret.self].self)

\* C4 as stated: a leaf that is not negated, with key f__in or f__nin and a
\* list of strs and ints, renders "f IN [e1,...]" (NOT IN), the elements in
\* order, joined by ",", a str with a space quoted, a str without a space
\* bare, an int in decimal.
C4_Original ==
    (ret.op = "to_query_string" /\ ~nodes[ret.self].negate
        /\ KeyOf(ret.self) \in {F \o DU \o OP_IN, F \o DU \o OP_NOT_IN}
        /\ ValueOf(ret.self).t = "list"
        /\ \A i \in 1..Len(ValueOf(ret.self).l) : ValueOf(ret.self).l[i].t \in {"str", "int"}) =>
        LET l == ValueOf(ret.self).l
            decimal(n) == CASE n = 12 -> <<"1", "2">> [] n = 0 - 3 -> <<"-", "3">>
            fmt(e) == IF e.t = "int" THEN decimal(e.n)
                      ELSE IF \E i \in 1..Len(e.s) : e.s[i] = " "
                           THEN <<"\"">> \o e.s \o <<"\"">>
                           ELSE e.s
            token == IF KeyOf(ret.self) = F \o DU \o OP_IN THEN <<"I", "N">>
                     ELSE <<"N", "O", "T", " ", "I", "N">>
        IN  /\ ret.exc = ""
            /\ ret.val.s = <<"f", " ">> \o token \o <<" ", "[">>
                             \o join(<<",">>, [i \in 1..Len(l) |-> fmt(l[i])]) \o <<"]">>

\* C4 as amended: as C4_Original, but a str without a space is bare only
\* when it is not one of the operator names (eq, neq, gt, gte, lt, lte, in,
\* nin, exists) or operator tokens (=, !=, >, >=, <, <=, IN, EXISTS); such a
\* str is wrapped in double quotes.
C4_ListRendering ==
    (ret.op = "to_query_string" /\ ~nodes[ret.self].negate
        /\ KeyOf(ret.self) \in {F \o DU \o OP_IN, F \o DU \o OP_NOT_IN}
        /\ ValueOf(ret.self).t = "list"
        /\ \A i \in 1..Len(ValueOf(ret.self).l) : ValueOf(ret.self).l[i].t \in {"str", "int"}) =>
        LET l == ValueOf(ret.self).l
            decimal(n) == CASE n = 12 -> <<"1", "2">> [] n = 0 - 3 -> <<"-", "3">>
            words == { <<"e", "q">>, <<"n", "e", "q">>, <<"g", "t">>, <<"g", "t", "e">>,
                       <<"l", "t">>, <<"l", "t", "e">>, <<"i", "n">>, <<"n", "i", "n">>,
                       <<"e", "x", "i", "s", "t", "s">>,
                       <<"=">>, <<"!", "=">>, <<">">>, <<">", "=">>, <<"<">>, <<"<", "=">>,
                       <<"I", "N">>, <<"E", "X", "I", "S", "T", "S">> }
            fmt(e) == IF e.t = "int" THEN decimal(e.n)
                      ELSE IF (\E i \in 1..Len(e.s) : e.s[i] = " ") \/ e.s \in words
                           THEN <<"\"">> \o e.s \o <<"\"">>
                           ELSE e.s
            token == IF KeyOf(ret.self) = F \o DU \o OP_IN THEN <<"I", "N">>
                     ELSE <<"N", "O", "T", " ", "I", "N">>
        IN  /\ ret.exc = ""
            /\ ret.val.s = <<"f", " ">> \o token \o <<" ", "[">>
                             \o join(<<",">>, [i \in 1..Len(l) |-> fmt(l[i])]) \o <<"]">>

\* Q(f__nin=["in", "b c"]) has been rendered.
C4_Witness ==
    /\ ret.op = "to_query_string"
    /\ ret.exc = ""
    /\ ~nodes[ret.self].negate
    /\ KeyOf(ret.self) = F \o DU \o OP_NOT_IN
    /\ ValueOf(ret.self) = PyList(<<PyStr(OP_IN), V_b_c>>)

\* Whether the tree under n holds a key with "__" whose last segment is not
\* one of the ten operators.
HasUnknownSuffix(n) ==
    \E i \in 1..Len(Flat(n)) :
        /\ contains(Flat(n)[i][1], DU)
        /\ key_operation(Flat(n)[i][1]) \notin OperationValues

\* C9 as stated: Q(...), &, | and ~ never fail, and to_query_string on a
\* tree that holds a key with an unknown operator suffix fails with the
\* invalid-operation error.
C9_Original ==
    /\ ret.op \in {"Q", "__and__", "__or__", "__invert__"} => ret.exc = ""
    /\ (ret.op = "to_query_string" /\ HasUnknownSuffix(ret.self)) =>
           ret.exc = InvalidOperation

\* C9 as amended: Q(...), &, | and ~ never fail, and to_query_string on a
\* tree that holds a key with an unknown operator suffix fails: with the
\* invalid-operation error when the first condition, in rendering order,
\* that has such a key or gives in/nin a value that is not a list has such a
\* key, and with the must-be-a-list error of that condition otherwise.
C9_UnknownSuffix ==
    /\ ret.op \in {"Q", "__and__", "__or__", "__invert__"} => ret.exc = ""
    /\ (ret.op = "to_query_string" /\ HasUnknownSuffix(ret.self)) =>
           LET conds == Flat(ret.self)
               unknown(i) == /\ contains(conds[i][1], DU)
                             /\ key_operation(conds[i][1]) \notin OperationValues
               notlist(i) == /\ key_operation(conds[i][1]) \in {OP_IN, OP_NOT_IN}
                             /\ conds[i][2].t # "list"
               first == CHOOSE i \in 1..Len(conds) :
                            /\ unknown(i) \/ notlist(i)
                            /\ \A j \in 1..(i - 1) : ~(unknown(j) \/ notlist(j))
           IN  /\ ret.exc # ""
               /\ unknown(first) => ret.exc = InvalidOperation
               /\ notlist(first) => ret.exc \in {InNotAList, NotInNotAList}

\* A combinator whose tree holds an unknown suffix has been rendered and the
\* invalid-operation error was raised.
C9_Witness ==
    /\ ret.op = "to_query_string"
    /\ Truthy(nodes[ret.self].operator)
    /\ HasUnknownSuffix(ret.self)
    /\ ret.exc = InvalidOperation

\* C10: rendering a leaf whose condition has operator in or nin and a value
\* that is not a list raises, negated or not; a condition with one of the
\* other eight operators and a value that is not a list renders to a str.
C10_ListRequired ==
    (ret.op = "to_query_string" /\ Len(dicts[nodes[ret.self].conditions]) = 1) =>
        LET operation == key_operation(KeyOf(ret.self))
            value == ValueOf(ret.self)
        IN  /\ (operation \in {OP_IN, OP_NOT_IN} /\ value.t # "list") =>
                   (ret.exc # "" /\ ret.val = PyNone)
            /\ (operation \in OperationValues \ {OP_IN, OP_NOT_IN} /\ value.t # "list") =>
                   (ret.exc = "" /\ ret.val.t = "str")

\* A negated leaf f__nin = "a" has been rendered and the call raised.
C10_Witness ==
    /\ ret.op = "to_query_string"
    /\ nodes[ret.self].negate
    /\ KeyOf(ret.self) = F \o DU \o OP_NOT_IN
    /\ ValueOf(ret.self) = V_a
    /\ ret.exc # ""

\* The key the protocol gives to an option.
ProtocolKey(attr) ==
    CASE attr = "hits_per_page" -> "hitsPerPage"
      [] attr = "attributes_to_retrieve" -> "attributesToRetrieve"
      [] attr = "attributes_to_crop" -> "attributesToCrop"
      [] attr = "crop_length" -> "cropLength"
      [] attr = "crop_marker" -> "cropMarker"
      [] attr = "attributes_to_highlight" -> "attributesToHighlight"
      [] attr = "highlight_pre_tag" -> "highlightPreTag"
      [] attr = "highlight_post_tag" -> "highlightPostTag"
      [] attr = "show_matches_position" -> "showMatchesPosition"
      [] attr = "matching_strategy" -> "matchingStrategy"
      [] OTHER -> attr

\* C5: when the filter option holds a Q object f, the mapping returned by
\* query() has under "filter" the str f.to_query_string(), not f itself.
C5_FilterRendered ==
    (ret.op = "query" /\ attrs["filter"].t = "Q") =>
        /\ ret.exc = ""
        /\ "filter" \in DOMAIN ret.map
        /\ ret.map["filter"].t = "str"
        /\ ret.map["filter"] = to_query_string(attrs["filter"].n).val

\* C6: every option that is set appears in the mapping returned by query()
\* under its protocol key, and no option name with an underscore is a key.
C6_ProtocolKeys ==
    ret.op = "query" =>
        /\ \A attr \in AttrNames :
               attrs[attr] # PyNone => ProtocolKey(attr) \in DOMAIN ret.map
        /\ \A attr \in AttrNames :
               ProtocolKey(attr) # attr => attr \notin DOMAIN ret.map

\* C7: the mapping returned by query() holds indexUid and q with the values
\* given at construction, holds an entry for an option exactly when the
\* option is not None, and holds no None.
C7_UnsetOmitted ==
    ret.op = "query" =>
        /\ ret.exc = ""
        /\ {"indexUid", "q"} \subseteq DOMAIN ret.map
        /\ ret.map["indexUid"] = ctor.index_uid
        /\ ret.map["q"] = ctor.search
        /\ \A attr \in AttrNames :
               attrs[attr] # PyNone <=>
                   (attr \in DOMAIN ret.map \/ ProtocolKey(attr) \in DOMAIN ret.map)
        /\ \A k \in DOMAIN ret.map : ret.map[k] # PyNone

\* query() has returned after limit was set and set back to None while
\* offset holds 0.
C7_Witness ==
    /\ ret.op = "query"
    /\ calls = 3
    /\ attrs["limit"] = PyNone
    /\ attrs["offset"] = PyInt(0)
    /\ DOMAIN ret.map = {"indexUid", "q", "offset"}

\* C8: a call of set_attr with a name that is not one of the 16 options
\* raises AttributeError and get_dict() returns after it what it returned
\* before it.
C8_UnknownRejected ==
    [][(ret'.op = "set_attr" /\ ret'.attr \notin
           {"filter", "limit", "offset", "hits_per_page", "page", "facets",
            "attributes_to_retrieve", "attributes_to_crop", "crop_length",
            "crop_marker", "attributes_to_highlight", "highlight_pre_tag",
            "highlight_post_tag", "show_matches_position", "sort",
            "matching_strategy"})
         => (ret'.exc = "AttributeError" /\ get_dict' = get_dict)]_vars

\* set_attr("index_uid", ...) has raised on a builder whose limit is set.
C8_Witness ==
    /\ ret.op = "set_attr"
    /\ ret.attr = "index_uid"
    /\ ret.value # PyNone
    /\ ret.exc = "AttributeError"
    /\ attrs["limit"] = PyInt(2)

\* C11: a call of &, | or ~ leaves every Q object that existed before it,
\* its operands included, as it was: the same conditions, operator, negation
\* flag and children, and the same outcome of to_query_string.
C11_OperandsUnchanged ==
    [][ret'.op \in {"__and__", "__or__", "__invert__"} =>
          \A i \in Ids :
              /\ nodes'[i] = nodes[i]
              /\ dicts'[nodes[i].conditions] = dicts[nodes[i].conditions]
              /\ lists'[nodes[i].children] = lists[nodes[i].children]
              /\ to_query_string(i)' = to_query_string(i)]_vars

\* ~A has returned for an A that is an operand of a combinator made before,
\* and the result renders differently from A.
C11_Witness ==
    /\ ret.op = "__invert__"
    /\ \E k \in Ids :
          /\ k < ret.val.n
          /\ made[k].op \in {"__and__", "__or__"}
          /\ made[k].self = ret.self
    /\ to_query_string(ret.val.n) # to_query_string(ret.self)

\* The deepest level of a combinator in the tree under n, the root being at
\* level 0; -1 when n is a leaf.
RECURSIVE CombinatorDepth(_)
CombinatorDepth(n) ==
    IF Truthy(nodes[n].operator)
    THEN LET l == CombinatorDepth(lists[nodes[n].children][1])
             r == CombinatorDepth(lists[nodes[n].children][2])
         IN  1 + (IF l > r THEN l ELSE r)
    ELSE 0 - 1

\* The nested two-element lists that mirror the tree under n, a leaf being
\* its filter string.
RECURSIVE Nested(_)
Nested(n) ==
    IF Truthy(nodes[n].operator)
    THEN PyList(<<Nested(lists[nodes[n].children][1]), Nested(lists[nodes[n].children][2])>>)
    ELSE to_query_string(n).val

C13_BoolLowercase ==
    (ret.op = "to_query_string" /\ ret.exc = ""
        /\ key_operation(KeyOf(ret.self)) \notin {OP_EXISTS, OP_NOT_EXISTS}) =>
        LET value == ValueOf(ret.self)
            text == ret.val.s
            last(k) == SubSeq(text, Len(text) - k + 1, Len(text))
        IN  /\ value.t = "bool" =>
                  IF value.n = 1 THEN last(5) = <<" ", "t", "r", "u", "e">>
                  ELSE last(6) = <<" ", "f", "a", "l", "s", "e">>
            /\ (value.t = "list" /\ key_operation(KeyOf(ret.self)) \in {OP_IN, OP_NOT_IN}
                    /\ \E i \in 1..Len(value.l) : value.l[i].t = "bool") =>
                  /\ contains(text, <<"t", "r", "u", "e">>)
                  /\ ~contains(text, <<"T", "r", "u", "e">>)

\* C14: a leaf whose condition has one of the operators eq, neq, gt, gte,
\* lt, lte (or no operator, which is eq) on the field f and a str value
\* renders as "f <token> <value>", the token negated when the leaf is, and
\* the value wrapped in double quotes when it holds a space and exactly as
\* given otherwise, even when it reads as an operator.
C14_ScalarString ==
    (ret.op = "to_query_string" /\ ValueOf(ret.self).t = "str"
        /\ KeyOf(ret.self) \in {<<"f">>, <<"f", "_", "_", "e", "q">>,
                                 <<"f", "_", "_", "n", "e", "q">>,
                                 <<"f", "_", "_", "g", "t">>, <<"f", "_", "_", "g", "t", "e">>,
                                 <<"f", "_", "_", "l", "t">>, <<"f", "_", "_", "l", "t", "e">>}) =>
        LET v == ValueOf(ret.self).s
            suffix == SubSeq(KeyOf(ret.self), 4, Len(KeyOf(ret.self)))
            plain == CASE suffix \in {<<>>, <<"e", "q">>} -> <<"=">>
                       [] suffix = <<"n", "e", "q">> -> <<"!", "=">>
                       [] suffix = <<"g", "t">> -> <<">">>
                       [] suffix = <<"g", "t", "e">> -> <<">", "=">>
                       [] suffix = <<"l", "t">> -> <<"<">>
                       [] suffix = <<"l", "t", "e">> -> <<"<", "=">>
            negated == CASE plain = <<"=">> -> <<"!", "=">>
                         [] plain = <<"!", "=">> -> <<"=">>
                         [] plain = <<">">> -> <<"<", "=">>
                         [] plain = <<">", "=">> -> <<"<">>
                         [] plain = <<"<">> -> <<">", "=">>
                         [] plain = <<"<", "=">> -> <<">">>
            token == IF nodes[ret.self].negate THEN negated ELSE plain
            text == IF \E i \in 1..Len(v) : v[i] = " " THEN <<"\"">> \o v \o <<"\"">> ELSE v
        IN  /\ ret.exc = ""
            /\ ret.val.s = <<"f", " ">> \o token \o <<" ">> \o text

\* Q(f__neq="in") has been rendered.
C14_Witness ==
    /\ ret.op = "to_query_string"
    /\ ~nodes[ret.self].negate
    /\ KeyOf(ret.self) = F \o DU \o OP_NOT_EQUALS
    /\ ValueOf(ret.self) = PyStr(OP_IN)
    /\ ret.val.s = <<"f", " ", "!", "=", " ", "i", "n">>

\* C15: a leaf whose condition is f__exists or f__not exists renders as
\* exactly "f EXISTS" or "f NOT EXISTS", the two exchanged when the leaf is
\* negated, whatever the value of the condition is.
C15_ExistsNoValue ==
    (ret.op = "to_query_string"
        /\ KeyOf(ret.self) \in {<<"f", "_", "_", "e", "x", "i", "s", "t", "s">>,
                                 <<"f", "_", "_", "n", "o", "t", " ", "e", "x", "i", "s", "t", "s">>}) =>
        LET positive == (Len(KeyOf(ret.self)) = 9) # nodes[ret.self].negate
        IN  /\ ret.exc = ""
            /\ ret.val.s = IF positive THEN <<"f", " ", "E", "X", "I", "S", "T", "S">>
                           ELSE <<"f", " ", "N", "O", "T", " ", "E", "X", "I", "S", "T", "S">>

\* The negation of Q(f__exists=False) has been rendered.
C15_Witness ==
    /\ ret.op = "to_query_string"
    /\ nodes[ret.self].negate
    /\ KeyOf(ret.self) = F \o DU \o OP_EXISTS
    /\ ValueOf(ret.self) = PyBool(FALSE)
    /\ ret.val.s = <<"f", " ", "N", "O", "T", " ", "E", "X", "I", "S", "T", "S">>

\* C16: a leaf that is not negated and whose key is f renders "f = ...";
\* one whose key is f, a__b or a__b__c followed by __ and the name of one of
\* the ten operators renders the segments before the name joined by "."
\* (f, a.b, a.b.c), then the token of that operator.  The segments of a key
\* are its pieces between the "__" separators; in and nin with a value that
\* is not a list raise and are left out.
C16_KeyParsing ==
    (ret.op = "to_query_string" /\ ~nodes[ret.self].negate) =>
        LET names == << <<"e", "q">>, <<"n", "e", "q">>, <<"g", "t">>, <<"g", "t", "e">>,
                        <<"l", "t">>, <<"l", "t", "e">>, <<"i", "n">>, <<"n", "i", "n">>,
                        <<"e", "x", "i", "s", "t", "s">>,
                        <<"n", "o", "t", " ", "e", "x", "i", "s", "t", "s">> >>
            tokens == << <<"=">>, <<"!", "=">>, <<">">>, <<">", "=">>, <<"<">>, <<"<", "=">>,
                         <<"I", "N">>, <<"N", "O", "T", " ", "I", "N">>,
                         <<"E", "X", "I", "S", "T", "S">>,
                         <<"N", "O", "T", " ", "E", "X", "I", "S", "T", "S">> >>
            paths == { << <<"f">>, <<"f">> >>,
                       << <<"a", "_", "_", "b">>, <<"a", ".", "b">> >>,
                       << <<"a", "_", "_", "b", "_", "_", "c">>, <<"a", ".", "b", ".", "c">> >> }
            key == KeyOf(ret.self)
            listless(i) == i \in {7, 8} /\ ValueOf(ret.self).t # "list"
            starts(field, token) ==
                LET head == field \o <<" ">> \o token
                IN  /\ ret.exc = ""
                    /\ Len(ret.val.s) >= Len(head)
                    /\ SubSeq(ret.val.s, 1, Len(head)) = head
                    /\ Len(ret.val.s) > Len(head) => ret.val.s[Len(head) + 1] = " "
        IN  /\ key = <<"f">> => starts(<<"f">>, <<"=">>)
            /\ \A p \in paths : \A i \in 1..10 :
                   (key = p[1] \o <<"_", "_">> \o names[i] /\ ~listless(i)) =>
                       starts(p[2], tokens[i])

\* Q(a__b__c__lte=12) has been rendered as "a.b.c <= 12".
C16_Witness ==
    /\ ret.op = "to_query_string"
    /\ ~nodes[ret.self].negate
    /\ KeyOf(ret.self) = <<"a", "_", "_", "b", "_", "_", "c", "_", "_", "l", "t", "e">>
    /\ ret.val.s = <<"a", ".", "b", ".", "c", " ", "<", "=", " ", "1", "2">>

\* The position of the ")" that closes a "(" of the filter s, reading from
\* position i with depth parentheses open.
RECURSIVE CloseParen(_, _, _)
CloseParen(s, i, depth) ==
    IF s[i] = "(" THEN CloseParen(s, i + 1, depth + 1)
    ELSE IF s[i] = ")"
         THEN IF depth = 1 THEN i ELSE CloseParen(s, i + 1, depth - 1)
         ELSE CloseParen(s, i + 1, depth)

\* Whether the filter s, built from the conditions age > 19 and age <= 19,
\* matches a document with the given age.
RECURSIVE Matches(_, _)
Matches(s, age) ==
    IF s[1] = "("
    THEN LET c == CloseParen(s, 2, 1)
             left == Matches(SubSeq(s, 2, c - 1), age)
         IN  IF s[c + 2] = "A"
             THEN left /\ Matches(SubSeq(s, c + 7, Len(s) - 1), age)
             ELSE left \/ Matches(SubSeq(s, c + 6, Len(s) - 1), age)
    ELSE IF s = <<"a", "g", "e", " ", ">", " ", "1", "9">> THEN age > 19
    ELSE age <= 19

\* C17: when ~c has just returned for a combinator c, the filter it renders
\* matches a document exactly when the filter rendered by c does not.
C17_CombinatorNegation ==
    (ret.op = "__invert__" /\ Truthy(nodes[ret.self].operator)) =>
        \A age \in {19, 20} :
            Matches(to_query_string(ret.val.n).val.s, age)
                <=> ~Matches(to_query_string(ret.self).val.s, age)

\* C18 as stated: a leaf, negated or not, with key f__in or f__nin and a
\* list renders every element once: its text (a str as given, a bool as
\* true or false, an int in decimal) wrapped in one pair of double quotes
\* when the text holds a space or is one of the tokens =, !=, >, >=, <, <=,
\* IN, NOT IN, EXISTS, NOT EXISTS, and bare otherwise.
C18_Original ==
    (ret.op = "to_query_string"
        /\ KeyOf(ret.self) \in {<<"f", "_", "_", "i", "n">>, <<"f", "_", "_", "n", "i", "n">>}
        /\ ValueOf(ret.self).t = "list") =>
        LET l == ValueOf(ret.self).l
            reserved == { <<"=">>, <<"!", "=">>, <<">">>, <<">", "=">>, <<"<">>, <<"<", "=">>,
                          <<"I", "N">>, <<"N", "O", "T", " ", "I", "N">>,
                          <<"E", "X", "I", "S", "T", "S">>,
                          <<"N", "O", "T", " ", "E", "X", "I", "S", "T", "S">> }
            text(e) == CASE e.t = "str" -> e.s
                         [] e.t = "bool" -> IF e.n = 1 THEN <<"t", "r", "u", "e">>
                                            ELSE <<"f", "a", "l", "s", "e">>
                         [] e = PyInt(12) -> <<"1", "2">>
                         [] e = PyInt(0 - 3) -> <<"-", "3">>
            fmt(e) == IF (\E i \in 1..Len(text(e)) : text(e)[i] = " ") \/ text(e) \in reserved
                      THEN <<"\"">> \o text(e) \o <<"\"">>
                      ELSE text(e)
            isin == (Len(KeyOf(ret.self)) = 5) # nodes[ret.self].negate
            token == IF isin THEN <<"I", "N">> ELSE <<"N", "O", "T", " ", "I", "N">>
        IN  /\ ret.exc = ""
            /\ ret.val.s = <<"f", " ">> \o token \o <<" ", "[">>
                             \o join(<<",">>, [i \in 1..Len(l) |-> fmt(l[i])]) \o <<"]">>

\* C18 as amended: as C18_Original, but the text is also wrapped when it is
\* one of the operator names eq, neq, gt, gte, lt, lte, in, nin, exists,
\* not exists, and bare only when it holds no space and is neither a token
\* nor a name.
C18_ReservedQuoted ==
    (ret.op = "to_query_string"
        /\ KeyOf(ret.self) \in {<<"f", "_", "_", "i", "n">>, <<"f", "_", "_", "n", "i", "n">>}
        /\ ValueOf(ret.self).t = "list") =>
        LET l == ValueOf(ret.self).l
            reserved == { <<"=">>, <<"!", "=">>, <<">">>, <<">", "=">>, <<"<">>, <<"<", "=">>,
                          <<"I", "N">>, <<"N", "O", "T", " ", "I", "N">>,
                          <<"E", "X", "I", "S", "T", "S">>,
                          <<"N", "O", "T", " ", "E", "X", "I", "S", "T", "S">>,
                          <<"e", "q">>, <<"n", "e", "q">>, <<"g", "t">>, <<"g", "t", "e">>,
                          <<"l", "t">>, <<"l", "t", "e">>, <<"i", "n">>, <<"n", "i", "n">>,
                          <<"e", "x", "i", "s", "t", "s">>,
                          <<"n", "o", "t", " ", "e", "x", "i", "s", "t", "s">> }
            text(e) == CASE e.t = "str" -> e.s
                         [] e.t = "bool" -> IF e.n = 1 THEN <<"t", "r", "u", "e">>
                                            ELSE <<"f", "a", "l", "s", "e">>
                         [] e = PyInt(12) -> <<"1", "2">>
                         [] e = PyInt(0 - 3) -> <<"-", "3">>
            fmt(e) == IF (\E i \in 1..Len(text(e)) : text(e)[i] = " ") \/ text(e) \in reserved
                      THEN <<"\"">> \o text(e) \o <<"\"">>
                      ELSE text(e)
            isin == (Len(KeyOf(ret.self)) = 5) # nodes[ret.self].negate
            token == IF isin THEN <<"I", "N">> ELSE <<"N", "O", "T", " ", "I", "N">>
        IN  /\ ret.exc = ""
            /\ ret.val.s = <<"f", " ">> \o token \o <<" ", "[">>
                             \o join(<<",">>, [i \in 1..Len(l) |-> fmt(l[i])]) \o <<"]">>

\* Q(f__in=["NOT IN", ">="]) has been rendered with each element in one
\* pair of quotes.
C18_Witness ==
    /\ ret.op = "to_query_string"
    /\ ~nodes[ret.self].negate
    /\ KeyOf(ret.self) = F \o DU \o OP_IN
    /\ ValueOf(ret.self) = PyList(<<PyStr(T_NOT_IN), PyStr(T_GTE)>>)
    /\ ret.val.s = <<"f", " ", "I", "N", " ", "[", "\"", "N", "O", "T", " ", "I", "N", "\"",
                     ",", "\"", ">", "=", "\"", "]">>

\* C19: a leaf with two or more of the conditions name="b c", age__gt=19,
\* cat__nin=["a"], f__exists=True renders the text of each condition, in
\* the order the keys were given, joined by " AND " and nothing else; when
\* the leaf is negated each text has its own token negated.
C19_ConditionsJoined ==
    (ret.op = "to_query_string" /\ Len(dicts[nodes[ret.self].conditions]) >= 2) =>
        LET conds == dicts[nodes[ret.self].conditions]
            plain(key) ==
                CASE key = <<"n", "a", "m", "e">> ->
                       <<"n", "a", "m", "e", " ", "=", " ", "\"", "b", " ", "c", "\"">>
                  [] key = <<"a", "g", "e", "_", "_", "g", "t">> ->
                       <<"a", "g", "e", " ", ">", " ", "1", "9">>
                  [] key = <<"c", "a", "t", "_", "_", "n", "i", "n">> ->
                       <<"c", "a", "t", " ", "N", "O", "T", " ", "I", "N", " ", "[", "a", "]">>
                  [] key = <<"f", "_", "_", "e", "x", "i", "s", "t", "s">> ->
                       <<"f", " ", "E", "X", "I", "S", "T", "S">>
            negated(key) ==
                CASE key = <<"n", "a", "m", "e">> ->
                       <<"n", "a", "m", "e", " ", "!", "=", " ", "\"", "b", " ", "c", "\"">>
                  [] key = <<"a", "g", "e", "_", "_", "g", "t">> ->
                       <<"a", "g", "e", " ", "<", "=", " ", "1", "9">>
                  [] key = <<"c", "a", "t", "_", "_", "n", "i", "n">> ->
                       <<"c", "a", "t", " ", "I", "N", " ", "[", "a", "]">>
                  [] key = <<"f", "_", "_", "e", "x", "i", "s", "t", "s">> ->
                       <<"f", " ", "N", "O", "T", " ", "E", "X", "I", "S", "T", "S">>
            texts == [i \in 1..Len(conds) |->
                         IF nodes[ret.self].negate THEN negated(conds[i][1])
                         ELSE plain(conds[i][1])]
        IN  /\ ret.exc = ""
            /\ ret.val.s = join(<<" ", "A", "N", "D", " ">>, texts)

\* A negated leaf with three conditions, cat__nin given first and name
\* last, has been rendered.
C19_Witness ==
    /\ ret.op = "to_query_string"
    /\ ret.exc = ""
    /\ nodes[ret.self].negate
    /\ Len(dicts[nodes[ret.self].conditions]) = 3
    /\ dicts[nodes[ret.self].conditions][1][1] = K_cat_nin
    /\ dicts[nodes[ret.self].conditions][3][1] = K_name

\* C20: a call of a setter of IndexSearch returns the IndexSearch and puts
\* the value passed into the slot of that setter; every other slot,
\* index_uid, search_query and the arguments of the constructor stay as
\* they were.  After a sequence of setter calls a slot then holds the value
\* of the latest call of its setter, and None when there was none.
C20_SetterFrame ==
    [][\A pair \in { <<"filter", "filter">>, <<"limit", "limit">>, <<"offset", "offset">>,
                      <<"hits_per_page", "hits_per_page">>, <<"page", "page">>,
                      <<"facets", "facets">>,
                      <<"retrieve_attributes", "attributes_to_retrieve">>,
                      <<"crop_attributes", "attributes_to_crop">>,
                      <<"crop_length", "crop_length">>, <<"crop_marker", "crop_marker">>,
                      <<"highlight_attributes", "attributes_to_highlight">>,
                      <<"highlight_pre_tag", "highlight_pre_tag">>,
                      <<"highlight_post_tag", "highlight_post_tag">>,
                      <<"show_matches_position", "show_matches_position">>,
                      <<"sort", "sort">>, <<"matching_strategy", "matching_strategy">> } :
          ret'.op = pair[1] =>
              /\ ret'.exc = ""
              /\ ret'.val = PyIndexSearch
              /\ attrs'[pair[2]] = ret'.value
              /\ \A k \in (DOMAIN attrs) \ {pair[2]} : attrs'[k] = attrs[k]
              /\ DOMAIN attrs' = DOMAIN attrs
              /\ ctor' = ctor]_vars

\* crop_attributes(["a"]) has returned on a builder whose limit is set and
\* whose attributes_to_retrieve is not.
C20_Witness ==
    /\ ret.op = "crop_attributes"
    /\ ret.val = PyIndexSearch
    /\ attrs["attributes_to_crop"] = PyList(<<V_a>>)
    /\ attrs["attributes_to_retrieve"] = PyNone
    /\ attrs["limit"] = PyInt(2)
    /\ attrs["index_uid"] = ctor.index_uid

\* The Q objects in the children list of n.
Children(n) == {lists[nodes[n].children][i] : i \in 1..Len(lists[nodes[n].children])}

\* The Q objects reached from n through at most k children steps.
RECURSIVE Descendants(_, _)
Descendants(n, k) ==
    IF k = 0 THEN {}
    ELSE Children(n) \cup UNION {Descendants(c, k - 1) : c \in Children(n)}

\* The Q object that n was obtained from by zero or more calls of ~.
RECURSIVE NegationRoot(_)
NegationRoot(n) == IF made[n].op = "__invert__" THEN NegationRoot(made[n].self) ELSE n

\* C21 as stated: no Q object is a child of two parents or both children
\* of one parent, no two Q objects hold the same children list or the same
\* conditions dict, and no Q object is reachable from itself.
C21_Original ==
    /\ \A p \in Ids, q \in Ids : p # q => Children(p) \cap Children(q) = {}
    /\ \A p \in Ids : Len(lists[nodes[p].children]) = 2 =>
           lists[nodes[p].children][1] # lists[nodes[p].children][2]
    /\ \A p \in Ids, q \in Ids :
           p # q => /\ nodes[p].children # nodes[q].children
                    /\ nodes[p].conditions # nodes[q].conditions
    /\ \A n \in Ids : n \notin Descendants(n, Len(nodes))

\* C21 as amended: no Q object is reachable from itself through children,
\* and two Q objects hold the same children list or the same conditions
\* dict only when both were obtained from one Q object by calls of ~; a Q
\* object may be a child of several parents or both children of one.
C21_AcyclicShared ==
    /\ \A n \in Ids : n \notin Descendants(n, Len(nodes))
    /\ \A p \in Ids, q \in Ids :
           (nodes[p].children = nodes[q].children
               \/ nodes[p].conditions = nodes[q].conditions) =>
               NegationRoot(p) = NegationRoot(q)

\* A combinator has one Q object as both children, and its negation, which
\* holds the same children list, is itself a child of another combinator.
C21_Witness ==
    \E p \in Ids, q \in Ids, r \in Ids :
        /\ made[p].op \in {"__and__", "__or__"}
        /\ lists[nodes[p].children][1] = lists[nodes[p].children][2]
        /\ made[q].op = "__invert__"
        /\ made[q].self = p
        /\ nodes[q].children = nodes[p].children
        /\ q \in Children(r)

\* C22: a call of to_query_string, to_query_list, prettify_query_string or
\* explain leaves every Q object, every conditions dict with its keys and
\* values, and every children list as it was, and the same call made again
\* in the state it leaves has the outcome it had.
C22_RenderersReadOnly ==
    /\ [][ret'.op \in {"to_query_string", "to_query_list", "prettify_query_string", "explain"} =>
            /\ nodes' = nodes
            /\ dicts' = dicts
            /\ lists' = lists]_vars
    /\ [](ret.op \in {"to_query_string", "to_query_list", "prettify_query_string", "explain"} =>
             [exc |-> ret.exc, val |-> ret.val] =
                 CASE ret.op = "to_query_string" -> to_query_string(ret.self)
                   [] ret.op = "to_query_list" -> to_query_list(ret.self, 0)
                   [] ret.op = "prettify_query_string" -> prettify_query_string(ret.self)
                   [] ret.op = "explain" -> explain(ret.self, 0))

\* explain() has returned on a combinator whose first child holds a list
\* value.
C22_Witness ==
    /\ ret.op = "explain"
    /\ ret.exc = ""
    /\ Truthy(nodes[ret.self].operator)
    /\ ValueOf(lists[nodes[ret.self].children][1]).t = "list"

\* C23: _await_running_task polls at most 21 times, makes no poll after it
\* has ended, and ends in one of three ways: it returns the task of the
\* first poll whose status is "succeeded", raises Exception at the first
\* poll whose status is "failed", and otherwise returns None after 21 polls,
\* without raising.
C23_AwaitOutcome ==
    /\ wait.polls <= 21
    /\ wait.pc = "done" =>
          CASE wait.status = "succeeded" -> wait.outcome = "task"
            [] wait.status = "failed" -> wait.outcome = "Exception"
            [] OTHER -> wait.outcome = "None" /\ wait.polls = 21

\* C24: delete_index(name) for a name obtained through get_index completes
\* without error and leaves name out of the registry, and get_index never
\* returns an object delete_index was called for.
C24_DeleteIndex ==
    /\ (ret.op = "delete_index" /\ ret.self # 0) =>
          (ret.exc = "" /\ ~InIndexes(ret.attr))
    /\ ret.op = "get_index" => ret.val.n \notin client.deleted

\* C25: for a combinator c with children A and B whose renderings at level 1
\* succeed, to_query_list of c is the two-element list of the rendering of A
\* and the rendering of B at level 1; every combinator over the same
\* children, whatever its operator and its negation flag, renders the same.
C25_OperatorNotRecorded ==
    \A c \in Ids :
        Truthy(nodes[c].operator) =>
            LET A == to_query_list(lists[nodes[c].children][1], 1)
                B == to_query_list(lists[nodes[c].children][2], 1)
                r == to_query_list(c, 0)
            IN  /\ (A.exc = "" /\ B.exc = "") => r = Return(PyList(<<A.val, B.val>>))
                /\ \A d \in Ids :
                      (Truthy(nodes[d].operator)
                          /\ lists[nodes[d].children] = lists[nodes[c].children]) =>
                         to_query_list(d, 0) = r

\* An AND node, an OR node and a negated combinator over the same children,
\* and to_query_list has returned a list for one of them.
C25_Witness ==
    /\ ret.op = "to_query_list"
    /\ ret.exc = ""
    /\ ret.val.t = "list"
    /\ \E c \in Ids, d \in Ids, e \in Ids :
          /\ nodes[c].operator = PyStr(<<"A", "N", "D">>)
          /\ nodes[d].operator = PyStr(<<"O", "R">>)
          /\ nodes[e].negate /\ Truthy(nodes[e].operator)
          /\ lists[nodes[d].children] = lists[nodes[c].children]
          /\ lists[nodes[e].children] = lists[nodes[c].children]
          /\ ret.self \in {c, d, e}

\* C26: when to_query_list(lvl) with lvl <= 2 has been called on a leaf, it
\* has succeeded exactly when to_query_string succeeds on that leaf, and then
\* it has returned the same string.
C26_LeafListIsString ==
    (/\ ret.op = "to_query_list"
     /\ ret.value.n <= 2
     /\ ~Truthy(nodes[ret.self].operator)) =>
        LET s == to_query_string(ret.self)
        IN  /\ (ret.exc = "") <=> (s.exc = "")
            /\ s.exc = "" => ret.val = s.val

\* to_query_list(2) has returned the string of a negated leaf whose value is
\* a list.
C26_Witness ==
    /\ ret.op = "to_query_list"
    /\ ret.value = PyInt(2)
    /\ ret.exc = ""
    /\ ret.val.t = "str"
    /\ nodes[ret.self].negate
    /\ \E i \in 1..Len(dicts[nodes[ret.self].conditions]) :
          dicts[nodes[ret.self].conditions][i][2].t = "list"

====
